---- MODULE Spec2Model ----
(***************************************************************************)
(* A model of InterviewCoder's processing core:                            *)
(*   - ConfigHelper (loadConfig / updateConfig / hasApiKey),               *)
(*   - ProcessingHelper (initializeModelProvider, processScreenshots and   *)
(*     its helpers, cancelOngoingRequests),                                *)
(*   - the three model providers' initialize / isInitialized /             *)
(*     chat.completions.create,                                            *)
(*   - the application state of main.ts the helpers read and write.        *)
(*                                                                         *)
(* Node runs every handler to its next real suspension (network or file    *)
(* I/O); an await of an already settled promise resumes in the same turn   *)
(* of the event loop.  An action of this model is one such turn.           *)
(***************************************************************************)
EXTENDS Integers, Sequences, FiniteSets, TLC

\* ------------------------------------------------------------------ bounds
MaxAdapters == 3      \* provider instances ever constructed
MaxPipes    == 2      \* processScreenshots runs that reach their first await
MaxUpdates  == 1      \* updateConfig calls
MaxShots    == 1      \* screenshots per queue
MaxCalls    == 2      \* chat.completions.create calls on the single adapter

\* ------------------------------------------------------------ ConfigHelper
\* Every field is kept as a string; "" is the missing (falsy) value.
defaultConfig ==
  [ modelProvider   |-> "openai",
    apiKey          |-> "",
    geminiApiKey    |-> "",
    extractionModel |-> "gpt-4o",
    solutionModel   |-> "gpt-4o",
    debuggingModel  |-> "gpt-4o",
    ollamaUrl       |-> "localhost:11434/api",
    language        |-> "javascript",
    opacity         |-> "1.0" ]

ConfigFields == DOMAIN defaultConfig

\* a merge that starts from the defaults instead of the stored values
MergeIntoDefaults(current, updates) ==
  [ f \in ConfigFields |->
      IF f \in DOMAIN updates THEN updates[f] ELSE defaultConfig[f] ]

\* { ...currentConfig, ...updates }
MergeConfig(current, updates) ==
  [ f \in ConfigFields |->
      IF f \in DOMAIN updates THEN updates[f] ELSE current[f] ]

\* a notification for every update that has a field
EmitsOnAnyField(updates) == DOMAIN updates # { }

\* The fields whose presence in an update makes updateConfig emit
\* "config-updated".
EmittingFields ==
  { "apiKey", "extractionModel", "solutionModel", "debuggingModel", "language" }

EmitsConfigUpdated(updates) == (DOMAIN updates \cap EmittingFields) # {}

\* ConfigHelper.hasApiKey on a configuration
hasApiKey(cfg) ==
  IF cfg.modelProvider = "openai" THEN cfg.apiKey # ""
  ELSE IF cfg.modelProvider = "gemini" THEN cfg.geminiApiKey # ""
  ELSE IF cfg.modelProvider = "ollama" THEN cfg.ollamaUrl # ""
  ELSE FALSE

\* --------------------------------------------------------------- providers
\* The switch of initializeModelProvider: the class constructed for
\* config.modelProvider || "openai".
ProviderClass(providerType) ==
  IF providerType = "gemini" THEN "gemini"
  ELSE IF providerType = "ollama" THEN "ollama"
  ELSE "openai"

\* OpenAIProvider.initialize / GeminiProvider.initialize on a fresh instance:
\* the value returned, which is also isInitialized() afterwards.
\* (OllamaProvider.initialize awaits its probe: see InitializeProbeResult.)
InitializeNow(kind, cfg) ==
  IF kind = "openai" THEN cfg.apiKey # ""
  ELSE IF kind = "gemini" THEN cfg.geminiApiKey # ""
  ELSE FALSE

\* The outcomes of OllamaProvider.initialize's GET <baseUrl>/tags.
ProbeOutcomes == { "status200", "status2xx", "failed" }

\* OllamaProvider.initialize after the probe: isConnected becomes true only on
\* status 200; a rejected probe returns false and leaves isConnected as it was;
\* any other resolved status returns isConnected unchanged.
InitializeProbeResult(wasConnected, outcome) ==
  IF outcome = "status200" THEN TRUE
  ELSE IF outcome = "failed" THEN FALSE
  ELSE wasConnected

ProbeConnected(wasConnected, outcome) ==
  IF outcome = "status200" THEN TRUE ELSE wasConnected

\* chat.completions.create's guard: OpenAIProvider and GeminiProvider throw
\* "... not initialized" when isInitialized() is false; OllamaProvider's create
\* has no such guard.
CreateThrowsNotInitialized(kind, ready) ==
  kind \in { "openai", "gemini" } /\ ~ready

VARIABLES
  constructed,     \* the ProcessingHelper constructor has run
  config,          \* the stored configuration (config.json)
  updates,         \* number of updateConfig calls so far
  adapters,        \* every provider instance constructed: [kind, ready, cfg]
  modelProvider,   \* ProcessingHelper.modelProvider: 0 (null) or an index
  inits,           \* instances whose initialize is awaiting its probe
  view,            \* state.view
  problemInfo,     \* state.problemInfo: 0 (null) or the pipeline that stored it
  hasDebugged,     \* state.hasDebugged
  screenshotQueue, \* length of the main screenshot queue
  extraQueue,      \* length of the extra screenshot queue
  ctlInitial,      \* currentProcessingAbortController: 0 or the owner pipeline
  ctlExtra,        \* currentExtraProcessingAbortController: 0 or the owner
  pipes,           \* every processScreenshots run that reached an await
  sinceCancel,     \* cancelled mid-extraction, no processScreenshots since
  lastInit         \* the initializeModelProvider run that completed last

pvars ==
  << constructed, config, updates, adapters, modelProvider, inits, view,
     problemInfo, hasDebugged, screenshotQueue, extraQueue, ctlInitial,
     ctlExtra, pipes, sinceCancel, lastInit >>

\* One provider instance driven directly through its interface.
VARIABLES
  aKind,           \* its class
  aReady,          \* its isInitialized()
  aCalls,          \* chat.completions.create calls made so far
  aPc,             \* the current call: idle, first, second, returned, threw
  aRequest,        \* the options.messages of the current call
  aReadyAtCall,    \* isInitialized() when the current call was made
  aSent,           \* the requests the backend received for the current call
  aReplies,        \* the backend's replies to them, in order
  aError,          \* what the current call threw: none, notInitialized,
                   \* first (the first request's error), second (the retry's)
  aInitResult,     \* what the last initialize call returned: none, true, false
  aBaseUrl         \* its baseUrl field (OllamaProvider)

avars ==
  << aKind, aReady, aCalls, aPc, aRequest, aReadyAtCall, aSent, aReplies,
     aError, aInitResult, aBaseUrl >>

\* One extraction response and one solution response carried through the
\* parsing code of processScreenshotsHelper and generateSolutionsHelper.
VARIABLES
  xResponse,       \* the extraction call's response text
  xPc,             \* idle, extracted (response in hand), solving (the solution
                   \* call is outstanding), done (the helper has returned)
  xVia,            \* the strategy that produced the ProblemInfo
  xInfo,           \* state.problemInfo as the helper left it
  xOutcome,        \* what processScreenshotsHelper returned: none, success, or
                   \* the error text
  xSolution,       \* the solution call's response text
  xData,           \* the SolutionResult of generateSolutionsHelper, or the
                   \* response object of processExtraScreenshotsHelper
  xDebug,          \* cleanContent and sections of the last debug parse
  xEarlier         \* an earlier debug parse: its text, status and code

tvars ==
  << xResponse, xPc, xVia, xInfo, xOutcome, xSolution, xData, xDebug,
     xEarlier >>

vars == << pvars, avars, tvars >>

\* no response is being parsed
StagesIdle ==
  /\ xResponse = [ form |-> "none" ]
  /\ xPc = "idle"
  /\ xVia = "none"
  /\ xInfo = [ kind |-> "null" ]
  /\ xOutcome = "none"
  /\ xSolution = << >>
  /\ xData = [ code |-> << >> ]
  /\ xDebug = [ cleanContent |-> << >> ]
  /\ xEarlier = [ again |-> FALSE ]


\* ------------------------------------------------- messages and events
MsgNotInitialized ==
  "Model provider not initialized or API key invalid. Please check your settings."
MsgInvalidKey     == "Invalid API key. Please check your settings."
MsgRateLimit      ==
  "API rate limit exceeded or insufficient credits. Please try again later."
MsgServerError    == "Server error. Please try again later."
MsgParseFailed    ==
  "Failed to parse problem information. Please try again or use clearer screenshots."
MsgNoProblemInfo  == "No problem info available"
MsgNotConfigured  == "API key not configured. Please check your settings."
MsgClientNotInit  == "OpenAI client not initialized"
MsgGeminiNotInit  == "Gemini models not initialized"
MsgBackendPlain   == "Request failed"
MsgBackendInvalid == "Request failed: invalid model"

\* result.error?.includes("API Key") || result.error?.includes("invalid"),
\* case-sensitive, decided on each message text above.
MessageNamesKey(msg) == msg \in { MsgNotInitialized, MsgBackendInvalid }

SuccessEvents  == { "SOLUTION_SUCCESS", "DEBUG_SUCCESS" }
TerminalEvents ==
  { "SOLUTION_SUCCESS", "INITIAL_SOLUTION_ERROR", "API_KEY_INVALID",
    "DEBUG_SUCCESS", "DEBUG_ERROR" }

\* What an awaited chat.completions.create can end with.  "http401" .. are
\* errors that carry error.response.status (axios errors); "error" is an
\* error with a plain message, "errorInvalid" one whose message contains
\* "invalid".  No caller hands its AbortSignal to create, so no outcome is an
\* axios cancel.
BackendOutcomes ==
  { "ok", "http401", "http429", "http500", "error", "errorInvalid" }

\* What the extraction response text parses to: a JSON object, the
\* "problem ...:" line of the last fallback, nothing, or an empty JSON array,
\* whose first element is undefined.
ParseOutcomes == { "object", "line", "unparsable", "empty" }

\* processScreenshotsHelper's catch: the message returned for a thrown error.
HelperErrorMessage(outcome) ==
  IF outcome = "http401" THEN MsgInvalidKey
  ELSE IF outcome = "http429" THEN MsgRateLimit
  ELSE IF outcome = "http500" THEN MsgServerError
  ELSE IF outcome = "errorInvalid" THEN MsgBackendInvalid
  ELSE MsgBackendPlain

\* generateSolutionsHelper's and processExtraScreenshotsHelper's catch.
StageErrorMessage(outcome) ==
  IF outcome = "http401" THEN MsgInvalidKey
  ELSE IF outcome = "http429" THEN MsgRateLimit
  ELSE IF outcome = "errorInvalid" THEN MsgBackendInvalid
  ELSE MsgBackendPlain

\* The message of the error create throws on an instance that is not ready.
NotInitializedMessage(kind) ==
  IF kind = "gemini" THEN MsgGeminiNotInit ELSE MsgClientNotInit

\* ------------------------------------------------- the mutable state
\* The fields a turn of a pipeline reads and writes, as one record, so that
\* the code's statements compose in order.
Cur ==
  [ adapters      |-> adapters,
    modelProvider |-> modelProvider,
    inits         |-> inits,
    view          |-> view,
    problemInfo   |-> problemInfo,
    hasDebugged   |-> hasDebugged,
    extraQueue    |-> extraQueue,
    ctlInitial    |-> ctlInitial,
    ctlExtra      |-> ctlExtra,
    pipes         |-> pipes,
    lastInit      |-> lastInit ]

\* The instances something still refers to; the others are garbage.
Live(s) ==
  { s.modelProvider } \cup s.inits
    \cup { s.pipes[p].init : p \in DOMAIN s.pipes }
    \cup { s.pipes[p].xa : p \in DOMAIN s.pipes }
    \cup { s.pipes[p].sa : p \in DOMAIN s.pipes }
    \cup { s.pipes[p].da : p \in DOMAIN s.pipes }

Collected ==
  [ kind |-> "none", ready |-> FALSE, type |-> "none", solo |-> FALSE ]

Commit(s) ==
  \E r \in { s } :
    /\ adapters'      = [ i \in DOMAIN r.adapters |->
                            IF i \in Live(r) THEN r.adapters[i] ELSE Collected ]
    /\ modelProvider' = r.modelProvider
    /\ inits'         = r.inits
    /\ view'          = r.view
    /\ problemInfo'   = r.problemInfo
    /\ hasDebugged'   = r.hasDebugged
    /\ extraQueue'    = r.extraQueue
    /\ ctlInitial'    = r.ctlInitial
    /\ ctlExtra'      = r.ctlExtra
    /\ pipes'         = r.pipes
    /\ lastInit'      = r.lastInit
    /\ UNCHANGED << avars, tvars >>

NewPipe(kind) ==
  [ kind      |-> kind,
    pc        |-> "read",
    init      |-> 0,        \* the instance whose initialize it awaits
    xa        |-> 0,        \* the instance the extraction request went to
    sa        |-> 0,        \* the instance the solution request went to
    da        |-> 0,        \* the instance the debug request went to
    calls     |-> 0,        \* create calls it has made, while it runs
    read      |-> 0,        \* the ProblemInfo its solution prompt is built
                            \* from: the pipeline that stored it, while it runs
    \* the events it has sent before its terminal ones, while it runs
    log       |-> << IF kind = "initial" THEN "INITIAL_START"
                                         ELSE "DEBUG_START" >>,
    via       |-> "object", \* how extraction parsed
    term      |-> 0,        \* terminal events sent
    event     |-> "none",   \* the terminal event sent last
    succ      |-> 0,        \* success events sent
    cancelled |-> FALSE,    \* cancel was invoked while its call was outstanding
    noInfo    |-> FALSE ]   \* its solution or debug stage found no ProblemInfo

InFlight(p) == p.pc # "done"

\* pipeline p awaits a chat.completions.create call
CallOutstanding(p) == p.pc \in { "extract", "solve", "debug" }

\* processScreenshots returns: what the pipeline held is released.
Retire(s, p) ==
  [ s EXCEPT !.pipes[p].pc = "done", !.pipes[p].init = 0,
             !.pipes[p].xa = 0, !.pipes[p].sa = 0, !.pipes[p].da = 0,
             !.pipes[p].calls = 0, !.pipes[p].read = 0,
             !.pipes[p].log = << >>, !.pipes[p].via = "object" ]

\* a terminal event sent by pipeline p
Terminal(s, p, ev) ==
  [ s EXCEPT !.pipes[p].term = @ + 1,
             !.pipes[p].event = ev,
             !.pipes[p].succ = IF ev \in SuccessEvents THEN @ + 1 ELSE @ ]

\* deps.setView(v) called by pipeline p
SetView(s, p, v) ==
  [ s EXCEPT !.view = v ]

\* deps.setProblemInfo(info) called by pipeline p
SetProblemInfo(s, p, info) ==
  [ s EXCEPT !.problemInfo = info ]

\* screenshotHelper.clearExtraScreenshotQueue() called by pipeline p
ClearExtraScreenshotQueue(s, p) ==
  [ s EXCEPT !.extraQueue = 0 ]

\* ------------------------------------- initializeModelProvider
\* Up to the await of initialize: the instance is constructed and published
\* in this.modelProvider before initialize has returned.
\* "solo" records that no other run was in flight during this one.
InitRunSync(s, cfg) ==
  LET kind == ProviderClass(cfg.modelProvider)
      id   == Len(s.adapters) + 1
      others == [ i \in DOMAIN s.adapters |->
                    IF i \in s.inits THEN [ s.adapters[i] EXCEPT !.solo = FALSE ]
                    ELSE s.adapters[i] ]
  IN  [ s EXCEPT
          !.adapters = Append(others, [ kind  |-> kind,
                                        ready |-> InitializeNow(kind, cfg),
                                        type  |-> cfg.modelProvider,
                                        solo  |-> s.inits = {} ]),
          !.modelProvider = id,
          !.inits = IF kind = "ollama" THEN @ \cup { id } ELSE @ ]

\* The run without its else branch and its catch: the published instance is
\* kept whatever initialize returned.
InitRunSettleKeeps(s, success) == s

\* After the await: a failed initialize nulls this.modelProvider, whatever
\* instance it holds by then.
InitRunSettle(s, success) ==
  IF success THEN s ELSE [ s EXCEPT !.modelProvider = 0 ]

\* The run on instance id completes with initialize's result.
InitRunDone(s, id, success) ==
  [ InitRunSettle(s, success) EXCEPT
      !.lastInit = [ id     |-> id,
                     solo   |-> s.adapters[id].solo,
                     result |-> success,
                     type   |-> s.adapters[id].type ] ]

\* A whole run on a provider whose initialize does not suspend.
InitRunNow(s, cfg) ==
  LET s1 == InitRunSync(s, cfg)
      id == s1.modelProvider
  IN  InitRunDone(s1, id, s1.adapters[id].ready)

Suspends(cfg) == ProviderClass(cfg.modelProvider) = "ollama"


\* ------------------------------------- processScreenshots, initial pipeline
\* processScreenshots after processScreenshotsHelper returned a failure, and
\* its finally.
FinishInitial(s, p, msg) ==
  LET ev == IF MessageNamesKey(msg) THEN "API_KEY_INVALID"
                                    ELSE "INITIAL_SOLUTION_ERROR"
      s1 == SetView(Terminal(s, p, ev), p, "queue")
  IN  Retire([ s1 EXCEPT !.ctlInitial = 0 ], p)

\* processScreenshots after processScreenshotsHelper returned success, and
\* its finally.
SucceedInitial(s, p) ==
  LET s1 == SetView(Terminal(s, p, "SOLUTION_SUCCESS"), p, "solutions")
  IN  Retire([ s1 EXCEPT !.ctlInitial = 0 ], p)

\* processScreenshots' catch (a screenshot read threw) and its finally: the
\* error event is sent before and after the isCancel test.
OuterCatchInitial(s, p) ==
  LET s1 == Terminal(Terminal(s, p, "INITIAL_SOLUTION_ERROR"), p,
                     "INITIAL_SOLUTION_ERROR")
      s2 == SetView(s1, p, "queue")
  IN  Retire([ s2 EXCEPT !.ctlInitial = 0 ], p)

\* processScreenshotsHelper once generateSolutionsHelper returned success:
\* it clears the extra queue and sends SOLUTION_SUCCESS itself, then returns
\* success to processScreenshots.
AfterGenerateSuccess(s, p) ==
  SucceedInitial(
    Terminal(ClearExtraScreenshotQueue(s, p), p, "SOLUTION_SUCCESS"), p)

\* ... once it returned a failure: on the main path the message is rethrown
\* and returned by the helper's catch; on the line-scan fallback path the
\* helper falls through to its parse-failure return.
AfterGenerateFailure(s, p, msg) ==
  IF s.pipes[p].via = "line" THEN FinishInitial(s, p, MsgParseFailed)
  ELSE FinishInitial(s, p, msg)

\* pipeline p's stage read getProblemInfo() and got none
NoInfo(s, p) == [ s EXCEPT !.pipes[p].noInfo = TRUE ]

GenerateStartUnchecked(s, p) ==
  [ (IF s.problemInfo = 0 THEN NoInfo(s, p) ELSE s) EXCEPT
      !.pipes[p].pc = "solve", !.pipes[p].sa = s.modelProvider,
      !.pipes[p].calls = @ + 1, !.pipes[p].read = s.problemInfo ]

\* generateSolutionsHelper up to its await of create.
GenerateStart(s, p) ==
  IF s.problemInfo = 0
  THEN AfterGenerateFailure(NoInfo(s, p), p, MsgNoProblemInfo)
  ELSE IF s.modelProvider = 0 THEN AfterGenerateFailure(s, p, MsgNotConfigured)
  ELSE LET a == s.adapters[s.modelProvider]
       IN  IF CreateThrowsNotInitialized(a.kind, a.ready)
           THEN AfterGenerateFailure(s, p, NotInitializedMessage(a.kind))
           ELSE [ s EXCEPT !.pipes[p].pc = "solve",
                           !.pipes[p].sa = s.modelProvider,
                           !.pipes[p].calls = @ + 1,
                           !.pipes[p].read = s.problemInfo ]

\* a solution stage that calls create again when the call failed
SolveReturnRetrying(s, p, outcome) ==
  IF outcome = "ok" THEN AfterGenerateSuccess(s, p)
  ELSE GenerateStart(s, p)

\* generateSolutionsHelper after create settled.
SolveReturn(s, p, outcome) ==
  IF outcome = "ok" THEN AfterGenerateSuccess(s, p)
  ELSE AfterGenerateFailure(s, p, StageErrorMessage(outcome))

\* an extraction whose solution prompt is built from what getProblemInfo()
\* returned before the extraction stored its own ProblemInfo
ExtractReturnReadsFirst(s, p, outcome, parse) ==
  IF outcome # "ok" THEN FinishInitial(s, p, HelperErrorMessage(outcome))
  ELSE IF parse = "unparsable" THEN FinishInitial(s, p, MsgParseFailed)
  ELSE LET s1 == [ s EXCEPT !.pipes[p].via =
                               IF parse = "line" THEN "line" ELSE "object",
                            !.pipes[p].log = Append(@, "PROBLEM_EXTRACTED") ]
           stored == IF parse = "empty" THEN 0 ELSE p
           s2 == GenerateStart(SetProblemInfo(s1, p, stored), p)
       IN  IF s2.pipes[p].pc = "solve"
           THEN [ s2 EXCEPT !.pipes[p].read = s.problemInfo ]
           ELSE s2

\* processScreenshotsHelper after the extraction create settled.
ExtractReturn(s, p, outcome, parse) ==
  IF outcome # "ok" THEN FinishInitial(s, p, HelperErrorMessage(outcome))
  ELSE IF parse = "unparsable" THEN FinishInitial(s, p, MsgParseFailed)
  ELSE LET s1 == [ s EXCEPT !.pipes[p].via =
                               IF parse = "line" THEN "line" ELSE "object",
                            !.pipes[p].log = Append(@, "PROBLEM_EXTRACTED") ]
           stored == IF parse = "empty" THEN 0 ELSE p
       IN  GenerateStart(SetProblemInfo(s1, p, stored), p)

\* a helper that goes to the solution call at once, on the ProblemInfo
\* that is stored
HelperCallSolvesAtOnce(s, p) ==
  [ s EXCEPT !.pipes[p].pc = "solve", !.pipes[p].sa = s.modelProvider,
             !.pipes[p].calls = @ + 1, !.pipes[p].read = s.problemInfo ]

\* processScreenshotsHelper from its provider check passed to the await of
\* the extraction create, issued on this.modelProvider as it is now.
HelperCall(s, p) ==
  [ s EXCEPT !.pipes[p].pc = "extract", !.pipes[p].xa = s.modelProvider,
             !.pipes[p].calls = @ + 1 ]

ProviderReady(s) ==
  s.modelProvider # 0 /\ s.adapters[s.modelProvider].ready

\* ... the second provider check, after the awaited initializeModelProvider.
HelperAfterInit(s, p) ==
  IF ProviderReady(s) THEN HelperCall(s, p)
  ELSE FinishInitial(s, p, MsgNotInitialized)

\* processScreenshotsHelper from its start.
HelperStart(s, p, cfg) ==
  IF ProviderReady(s) THEN HelperCall(s, p)
  ELSE IF Suspends(cfg)
       THEN LET s1 == InitRunSync(s, cfg)
            IN  [ s1 EXCEPT !.pipes[p].pc = "waitinit",
                            !.pipes[p].init = s1.modelProvider ]
       ELSE HelperAfterInit(InitRunNow(s, cfg), p)

\* ------------------------------------- processScreenshots, debug pipeline
\* a debug pipeline that ends without its finally
FinishDebugNoFinally(s, p, ev) ==
  Retire(Terminal(s, p, ev), p)

\* processScreenshots after processExtraScreenshotsHelper returned, and its
\* finally.
FinishDebug(s, p, ev) ==
  Retire([ Terminal(s, p, ev) EXCEPT !.ctlExtra = 0 ], p)

\* processScreenshots after processExtraScreenshotsHelper returned success.
SucceedDebug(s, p) ==
  FinishDebug([ s EXCEPT !.hasDebugged = TRUE ], p, "DEBUG_SUCCESS")

\* processExtraScreenshotsHelper up to its await of create.
ExtraHelperStart(s, p) ==
  IF s.problemInfo = 0 THEN FinishDebug(NoInfo(s, p), p, "DEBUG_ERROR")
  ELSE IF s.modelProvider = 0 THEN FinishDebug(s, p, "DEBUG_ERROR")
  ELSE LET a == s.adapters[s.modelProvider]
       IN  IF CreateThrowsNotInitialized(a.kind, a.ready)
           THEN FinishDebug(s, p, "DEBUG_ERROR")
           ELSE [ s EXCEPT !.pipes[p].pc = "debug",
                           !.pipes[p].da = s.modelProvider,
                           !.pipes[p].calls = @ + 1 ]

\* processExtraScreenshotsHelper after create settled.
DebugReturn(s, p, outcome) ==
  IF outcome = "ok" THEN SucceedDebug(s, p)
  ELSE FinishDebug(s, p, "DEBUG_ERROR")

\* processScreenshots from the view test to its first await.
StartPipeline(s, shots) ==
  LET pid == Len(s.pipes) + 1
  IN  IF s.view = "queue"
      THEN IF shots = 0 THEN s
           ELSE [ s EXCEPT !.ctlInitial = pid,
                           !.pipes = Append(@, NewPipe("initial")) ]
      ELSE IF s.extraQueue = 0 THEN s
           ELSE [ s EXCEPT !.ctlExtra = pid,
                           !.pipes = Append(@, NewPipe("debug")) ]


\* ------------------------------------------------------------- inputs
Providers == { "openai", "gemini", "ollama" }

\* SettingsDialog.handleSave's update: the provider, the three models and
\* the credential or endpoint of that provider.
HandleSave(mp, model, cred) ==
  LET base == [ modelProvider   |-> mp,
                extractionModel |-> model,
                solutionModel   |-> model,
                debuggingModel  |-> model ]
  IN  IF mp = "openai" THEN
        [ modelProvider |-> mp, extractionModel |-> model,
          solutionModel |-> model, debuggingModel |-> model, apiKey |-> cred ]
      ELSE IF mp = "gemini" THEN
        [ modelProvider |-> mp, extractionModel |-> model,
          solutionModel |-> model, debuggingModel |-> model,
          geminiApiKey |-> cred ]
      ELSE IF mp = "ollama" THEN
        [ modelProvider |-> mp, extractionModel |-> model,
          solutionModel |-> model, debuggingModel |-> model,
          ollamaUrl |-> cred ]
      ELSE base

\* The updates the settings dialog sends while pipelines run (its Save
\* button needs the selected provider's credential to be non-empty): a
\* switch to OpenAI, to Ollama, to Gemini.
SaveUpdates ==
  { HandleSave("openai", "gpt-4o", "sk-key"),
    HandleSave("ollama", "gpt-4o", "localhost:11434/api"),
    HandleSave("gemini", "gpt-4o", "gm-key") }

\* What config.json holds at startup: the defaults of a first run, or the
\* OpenAI key an earlier session saved.
StoredConfigs ==
  { defaultConfig, MergeConfig(defaultConfig, [ apiKey |-> "sk-key" ]) }

\* ---------------------------------------------------------------- Init
\* No provider instance is driven directly.
AdapterIdle ==
  /\ aKind = "openai"
  /\ aReady = FALSE
  /\ aCalls = 0
  /\ aPc = "idle"
  /\ aRequest = << >>
  /\ aReadyAtCall = FALSE
  /\ aSent = << >>
  /\ aReplies = << >>
  /\ aError = "none"
  /\ aInitResult = "none"
  /\ aBaseUrl = "http://localhost:11434/api"

\* ProcessingHelper's field initializers, main.ts's state, the default
\* configuration.
HelperInitWith(stored) ==
  /\ constructed = FALSE
  /\ config \in stored
  /\ updates = 0
  /\ adapters = << >>
  /\ modelProvider = 0
  /\ inits = {}
  /\ view = "queue"
  /\ problemInfo = 0
  /\ hasDebugged = FALSE
  /\ screenshotQueue = 0
  /\ extraQueue = 0
  /\ ctlInitial = 0
  /\ ctlExtra = 0
  /\ pipes = << >>
  /\ sinceCancel = FALSE
  /\ lastInit = [ id |-> 0, solo |-> FALSE, result |-> FALSE, type |-> "none" ]

HelperInit == HelperInitWith(StoredConfigs)

\* ------------------------------------------------------------- actions
\* new ProcessingHelper(deps): the first initializeModelProvider run and the
\* "config-updated" listener.
Constructor ==
  /\ ~constructed
  /\ constructed' = TRUE
  /\ Commit(IF Suspends(config) THEN InitRunSync(Cur, config)
                                ELSE InitRunNow(Cur, config))
  /\ UNCHANGED << config, updates, screenshotQueue, sinceCancel >>

\* ConfigHelper.updateConfig(u), with the listener's initializeModelProvider
\* run when "config-updated" is emitted.
UpdateConfig(u) ==
  LET newConfig == MergeConfig(config, u)
  IN  /\ constructed
      /\ updates < MaxUpdates
      /\ updates' = updates + 1
      /\ config' = newConfig
      /\ IF EmitsConfigUpdated(u)
         THEN /\ Len(adapters) < MaxAdapters
              /\ Commit(IF Suspends(newConfig) THEN InitRunSync(Cur, newConfig)
                                               ELSE InitRunNow(Cur, newConfig))
         ELSE Commit(Cur)
      /\ UNCHANGED << constructed, screenshotQueue, sinceCancel >>

\* OllamaProvider.initialize's probe settles; initializeModelProvider
\* resumes, and with it the processScreenshotsHelper that awaited this run.
InitFinish(id, outcome) ==
  /\ id \in inits
  /\ LET success == InitializeProbeResult(adapters[id].ready, outcome)
         s1 == [ Cur EXCEPT
                   !.adapters[id].ready = ProbeConnected(@, outcome),
                   !.inits = @ \ { id } ]
         s2 == InitRunDone(s1, id, success)
         waiting == { p \in DOMAIN pipes :
                        pipes[p].pc = "waitinit" /\ pipes[p].init = id }
     IN  Commit(IF waiting = {} THEN s2
                ELSE HelperAfterInit(s2, CHOOSE p \in waiting : TRUE))
  /\ UNCHANGED << constructed, config, updates, screenshotQueue,
                  sinceCancel >>

\* The "process-screenshots" / "trigger-process-screenshots" handlers:
\* hasApiKey, then processScreenshots up to its first await.
ProcessScreenshots ==
  /\ constructed
  /\ Len(pipes) < MaxPipes
  /\ IF ~hasApiKey(config)
     THEN /\ Commit(Cur)
          /\ UNCHANGED sinceCancel
     ELSE LET needInit == modelProvider = 0
              s1 == IF needInit THEN InitRunSync(Cur, config) ELSE Cur
              id == s1.modelProvider
              s2 == StartPipeline(s1, screenshotQueue)
              s3 == IF needInit /\ ~Suspends(config)
                    THEN InitRunDone(s2, id, s2.adapters[id].ready)
                    ELSE s2
          IN  /\ needInit => Len(adapters) < MaxAdapters
              /\ Commit(s3)
              /\ sinceCancel' = FALSE
  /\ UNCHANGED << constructed, config, updates, screenshotQueue >>

\* The screenshot reads of pipeline p settle.
ReadDone(p, ok) ==
  /\ p \in DOMAIN pipes
  /\ pipes[p].pc = "read"
  /\ IF pipes[p].kind = "initial"
     THEN IF ok
          THEN /\ ~ProviderReady(Cur) => Len(adapters) < MaxAdapters
               /\ Commit(HelperStart(Cur, p, config))
          ELSE Commit(OuterCatchInitial(Cur, p))
     ELSE IF ok THEN Commit(ExtraHelperStart(Cur, p))
          ELSE Commit(FinishDebug(Cur, p, "DEBUG_ERROR"))
  /\ UNCHANGED << constructed, config, updates, screenshotQueue,
                  sinceCancel >>

\* The extraction create awaited by pipeline p settles.
ExtractSettles(p, outcome, parse) ==
  /\ p \in DOMAIN pipes
  /\ pipes[p].pc = "extract"
  /\ Commit(ExtractReturn(Cur, p, outcome, parse))
  /\ UNCHANGED << constructed, config, updates, screenshotQueue,
                  sinceCancel >>

\* The solution create awaited by pipeline p settles.
SolveSettles(p, outcome) ==
  /\ p \in DOMAIN pipes
  /\ pipes[p].pc = "solve"
  /\ Commit(SolveReturn(Cur, p, outcome))
  /\ UNCHANGED << constructed, config, updates, screenshotQueue,
                  sinceCancel >>

\* The debug create awaited by pipeline p settles.
DebugSettles(p, outcome) ==
  /\ p \in DOMAIN pipes
  /\ pipes[p].pc = "debug"
  /\ Commit(DebugReturn(Cur, p, outcome))
  /\ UNCHANGED << constructed, config, updates, screenshotQueue,
                  sinceCancel >>

\* ProcessingHelper.cancelOngoingRequests on the record s.
CancelOngoing(s) ==
  [ s EXCEPT
      !.ctlInitial = 0,
      !.ctlExtra = 0,
      !.hasDebugged = FALSE,
      !.problemInfo = 0,
      !.pipes = [ p \in DOMAIN s.pipes |->
                    [ s.pipes[p] EXCEPT
                        !.cancelled = @ \/ CallOutstanding(s.pipes[p]) ] ] ]

MidExtraction ==
  \E p \in DOMAIN pipes : pipes[p].pc = "extract"

CancelOngoingRequests ==
  /\ constructed
  /\ Commit(CancelOngoing(Cur))
  /\ sinceCancel' = (sinceCancel \/ MidExtraction)
  /\ UNCHANGED << constructed, config, updates, screenshotQueue >>

\* The "trigger-reset" handler: cancelOngoingRequests, clearQueues,
\* setView("queue"), then the reset events.
TriggerReset ==
  /\ constructed
  /\ Commit([ CancelOngoing(Cur) EXCEPT !.extraQueue = 0,
                                        !.problemInfo = 0,
                                        !.view = "queue" ])
  /\ screenshotQueue' = 0
  /\ sinceCancel' = (sinceCancel \/ MidExtraction)
  /\ UNCHANGED << constructed, config, updates >>

\* takeScreenshot(): ScreenshotHelper stores the screenshot in one of its two
\* queues; which one is its decision, so either may be the one.
TakeScreenshot ==
  /\ constructed
  /\ \/ /\ screenshotQueue < MaxShots
        /\ screenshotQueue' = screenshotQueue + 1
        /\ UNCHANGED extraQueue
     \/ /\ extraQueue < MaxShots
        /\ extraQueue' = extraQueue + 1
        /\ UNCHANGED screenshotQueue
  /\ UNCHANGED << constructed, config, updates, adapters, modelProvider, inits,
                  view, problemInfo, hasDebugged, ctlInitial, ctlExtra, pipes,
                  sinceCancel, lastInit >>
  /\ UNCHANGED << avars, tvars >>

Next ==
  \/ Constructor
  \/ \E u \in SaveUpdates : UpdateConfig(u)
  \/ \E id \in inits, o \in ProbeOutcomes : InitFinish(id, o)
  \/ ProcessScreenshots
  \/ \E p \in DOMAIN pipes, ok \in BOOLEAN : ReadDone(p, ok)
  \/ \E p \in DOMAIN pipes, o \in BackendOutcomes, r \in ParseOutcomes :
        ExtractSettles(p, o, r)
  \/ \E p \in DOMAIN pipes, o \in BackendOutcomes : SolveSettles(p, o)
  \/ \E p \in DOMAIN pipes, o \in BackendOutcomes : DebugSettles(p, o)
  \/ CancelOngoingRequests
  \/ TriggerReset
  \/ TakeScreenshot

Init == HelperInit /\ AdapterIdle /\ StagesIdle

Spec == Init /\ [][Next]_vars



\* ===================================================================
\* Properties of the pipelines (specification Spec)
\* ===================================================================

\* C1: every pipeline started by processScreenshots sends exactly one
\* terminal event over its lifetime: never two while it runs or after it
\* ended, and never zero once it has ended.
C1_ExactlyOneTerminalEvent ==
  \A p \in DOMAIN pipes :
    /\ pipes[p].term <= 1
    /\ pipes[p].pc = "done" => pipes[p].term = 1

\* C2: a pipeline whose adapter call was outstanding when
\* cancelOngoingRequests was invoked never sends SOLUTION_SUCCESS or
\* DEBUG_SUCCESS afterwards (both are sent only in the turn that ends the
\* pipeline, the one that sets the view to 'solutions').
C2_CancelledPipelineNeverSucceeds ==
  \A p \in DOMAIN pipes : pipes[p].cancelled => pipes[p].succ = 0

\* C3: after a cancel (or reset) invoked in the middle of an extraction,
\* ProblemInfo stays null and hasDebugged stays false until a new
\* processScreenshots run is started.
C3_CancelLeavesNoResidue ==
  sinceCancel => (problemInfo = 0 /\ hasDebugged = FALSE)

\* C4: at any moment at most one initial pipeline and at most one debug
\* pipeline are in flight.
C4_AtMostOnePipelinePerKind ==
  \A k \in { "initial", "debug" } :
    Cardinality({ p \in DOMAIN pipes :
                    pipes[p].kind = k /\ InFlight(pipes[p]) }) <= 1

\* C5: whenever this.modelProvider is non-null, the instance it refers to
\* answers isInitialized() with true.
C5_PublishedAdapterIsInitialized ==
  modelProvider # 0 => adapters[modelProvider].ready

\* C6: within one initial pipeline the solution request goes to the same
\* provider instance as the extraction request.
C6_OneAdapterPerPipeline ==
  \A p \in DOMAIN pipes : pipes[p].sa # 0 => pipes[p].sa = pipes[p].xa


\* ===================================================================
\* Configuration changes alone: the constructor, updateConfig called through
\* the "update-config" channel with any partial configuration, and the
\* probes of the runs they start.
\* ===================================================================

\* Partial configurations the "update-config" handler passes on unchanged:
\* what the settings dialog saves, and updates of one field.
IpcUpdates ==
  SaveUpdates \cup
  { [ modelProvider |-> "anthropic", apiKey |-> "sk-key" ],
    [ modelProvider |-> "gemini", extractionModel |-> "gemini-2.0-flash" ],
    [ modelProvider |-> "gemini" ],
    [ modelProvider |-> "ollama" ],
    [ geminiApiKey |-> "gm-key" ],
    [ ollamaUrl |-> "remote:11434/api" ],
    [ apiKey |-> "sk-key" ],
    [ extractionModel |-> "gpt-4o-mini" ],
    [ language |-> "python" ],
    [ opacity |-> "0.5" ] }

\* What config.json may hold at startup, for any of the three providers.
AnyStoredConfigs ==
  StoredConfigs \cup
  { MergeConfig(defaultConfig, [ modelProvider |-> "gemini",
                                 geminiApiKey |-> "gm-key" ]),
    MergeConfig(defaultConfig, [ modelProvider |-> "ollama" ]) }

ConfigInit == HelperInitWith(AnyStoredConfigs) /\ AdapterIdle /\ StagesIdle

\* Every awaited operation settles: the screenshot reads, the create calls
\* and the probe of initialize each return or throw in the end.  (Pipelines
\* and initialize runs are finitely many, so fairness to the settling of
\* any of them is fairness to each.)
AwaitsSettle ==
  WF_vars( \/ \E p \in DOMAIN pipes, ok \in BOOLEAN : ReadDone(p, ok)
           \/ \E p \in DOMAIN pipes, o \in BackendOutcomes,
                 r \in ParseOutcomes : ExtractSettles(p, o, r)
           \/ \E p \in DOMAIN pipes, o \in BackendOutcomes : SolveSettles(p, o)
           \/ \E p \in DOMAIN pipes, o \in BackendOutcomes : DebugSettles(p, o)
           \/ \E id \in inits, o \in ProbeOutcomes : InitFinish(id, o) )

\* The pipelines under one stored configuration, with a provider whose
\* initialize returns at once (OpenAI, key stored) or awaits its probe
\* (Ollama): the steps of Next but for the settings dialog's.
LiveNext ==
  \/ Constructor
  \/ \E id \in inits, o \in ProbeOutcomes : InitFinish(id, o)
  \/ ProcessScreenshots
  \/ \E p \in DOMAIN pipes, ok \in BOOLEAN : ReadDone(p, ok)
  \/ \E p \in DOMAIN pipes, o \in BackendOutcomes, r \in ParseOutcomes :
        ExtractSettles(p, o, r)
  \/ \E p \in DOMAIN pipes, o \in BackendOutcomes : SolveSettles(p, o)
  \/ \E p \in DOMAIN pipes, o \in BackendOutcomes : DebugSettles(p, o)
  \/ CancelOngoingRequests
  \/ TriggerReset
  \/ TakeScreenshot

LiveInit ==
  /\ HelperInitWith({ MergeConfig(defaultConfig, [ apiKey |-> "sk-key" ]),
                      MergeConfig(defaultConfig, [ modelProvider |-> "ollama" ]) })
  /\ AdapterIdle
  /\ StagesIdle

SpecLive == LiveInit /\ [][LiveNext]_vars /\ AwaitsSettle

ConfigNext ==
  \/ Constructor
  \/ \E u \in IpcUpdates : UpdateConfig(u)
  \/ \E id \in inits, o \in ProbeOutcomes : InitFinish(id, o)

SpecConfig == ConfigInit /\ [][ConfigNext]_vars

\* The fields the selected provider is built from: the provider kind, the
\* three model identifiers, and the credential or endpoint of the provider
\* that is selected after the update.
ProviderFields(cfg) ==
  { "modelProvider", "extractionModel", "solutionModel", "debuggingModel" }
    \cup ( IF ProviderClass(cfg.modelProvider) = "gemini" THEN { "geminiApiKey" }
           ELSE IF ProviderClass(cfg.modelProvider) = "ollama" THEN { "ollamaUrl" }
           ELSE { "apiKey" } )

ProviderAffectingChange(old, new) ==
  \E f \in ProviderFields(new) : old[f] # new[f]

\* C7: every updateConfig call that changes a provider-affecting setting
\* starts a new initializeModelProvider run (a new provider instance is
\* constructed in the same step).
C7_ProviderChangeStartsRun ==
  [][ ProviderAffectingChange(config, config')
        => Len(adapters') = Len(adapters) + 1 ]_vars

\* C8: when an initializeModelProvider run that no other run overlapped has
\* completed (and no run has started since), this.modelProvider is non-null
\* exactly if initialize returned true, and then it is the instance of that
\* run, of the class mapped from config.modelProvider: gemini to
\* GeminiProvider, ollama to OllamaProvider, anything else to OpenAIProvider.
C8_SoloRunOutcome ==
  ( lastInit.id # 0 /\ lastInit.solo /\ Len(adapters) = lastInit.id )
    => /\ (modelProvider # 0) <=> lastInit.result
       /\ modelProvider # 0 =>
            /\ modelProvider = lastInit.id
            /\ adapters[modelProvider].kind =
                 ( IF lastInit.type = "gemini" THEN "gemini"
                   ELSE IF lastInit.type = "ollama" THEN "ollama"
                   ELSE "openai" )

\* A run on the local-inference provider, overlapped by no other, has
\* completed with a failed probe and left the reference null.
C8_Witness ==
  /\ lastInit.id # 0 /\ lastInit.solo /\ Len(adapters) = lastInit.id
  /\ lastInit.type = "ollama"
  /\ ~lastInit.result
  /\ modelProvider = 0


\* ===================================================================
\* One provider instance driven through IModelProvider: initialize and
\* chat.completions.create, with the backend's replies.
\* ===================================================================

\* options.messages: a message has a role and a content that is a string
\* (text) or an array of parts.
TextPart(t)  == [ type |-> "text", text |-> t, url |-> "" ]
ImagePart(u) == [ type |-> "image_url", text |-> "", url |-> u ]

StringMessage(role, t) ==
  [ role |-> role, isArray |-> FALSE, text |-> t, parts |-> << >> ]

ArrayMessage(role, parts) ==
  [ role |-> role, isArray |-> TRUE, text |-> "", parts |-> parts ]

\* DataUrl holds an image no wider than 1024 pixels, or one that sharp
\* cannot read; "data:image/png;base64,WIDE" holds a wider one.
DataUrl      == "data:image/png;base64,iVBOR"
EmptyDataUrl == "data:image/png;base64,"
HttpUrl      == "https://host/shot.png"

\* A string as the list of its non-empty pieces; concatenation is \o.
Str(t) == IF t = "" THEN << >> ELSE << t >>

\* url.match(/^data:image\/[a-z]+;base64,(.+)$/): the captured payload, if
\* the url matches and the capture is non-empty.
Base64Match(url) ==
  IF url = DataUrl THEN << "iVBOR" >>
  ELSE IF url = "data:image/png;base64,WIDE" THEN << "WIDE" >>
  ELSE << >>

\* resizeBase64Image(base64Data, 1024): the data itself when the image is
\* narrow enough or sharp throws, the base64 of the resized JPEG otherwise
ResizeBase64Image(base64Data) ==
  IF base64Data = "WIDE" THEN "/9j/resized" ELSE base64Data

\* the forEach over userMessage.content: textPrompt and images
RECURSIVE PartsText(_)
PartsText(parts) ==
  IF parts = << >> THEN << >>
  ELSE ( IF Head(parts).type = "text" THEN Str(Head(parts).text) ELSE << >> )
         \o PartsText(Tail(parts))

RECURSIVE PartsImages(_)
PartsImages(parts) ==
  IF parts = << >> THEN << >>
  ELSE ( IF Head(parts).type = "image_url" THEN Base64Match(Head(parts).url)
         ELSE << >> )
         \o PartsImages(Tail(parts))

\* messages.find(m => m.role === "user") || messages[messages.length - 1]
UserMessage(messages) ==
  LET users == { i \in DOMAIN messages : messages[i].role = "user" }
  IN  IF users # {}
      THEN messages[CHOOSE i \in users : \A j \in users : i <= j]
      ELSE messages[Len(messages)]

\* url || "http://localhost:11434/api": config.ollamaUrl in initialize,
\* options.baseUrl in create
BaseUrlOrDefault(url) ==
  IF url = "" THEN "http://localhost:11434/api" ELSE url

\* OllamaProvider's requestData: the number of images and finalPrompt; and
\* the address it is posted to, <options.baseUrl || default>/generate,
\* for the options of ProcessingHelper's calls, which have no baseUrl.
OllamaRequestData(messages) ==
  LET systemPrompt ==
        IF Len(messages) > 0 /\ messages[1].role = "system"
        THEN Str(messages[1].text) ELSE << >>
      userMessage == UserMessage(messages)
      textPrompt ==
        IF Len(messages) = 0 THEN << >>
        ELSE IF userMessage.isArray THEN PartsText(userMessage.parts)
        ELSE Str(userMessage.text)
      images ==
        IF Len(messages) > 0 /\ userMessage.isArray
        THEN PartsImages(userMessage.parts) ELSE << >>
  IN  [ images |-> Len(images),
        prompt |-> IF systemPrompt # << >>
                   THEN systemPrompt \o << "\n\n" >> \o textPrompt
                   ELSE textPrompt,
        \* requestData.images after the resizing, and no roles: the
        \* request has a prompt and images
        payloads |-> [ i \in DOMAIN images |-> ResizeBase64Image(images[i]) ],
        roles    |-> << >>,
        url      |-> << BaseUrlOrDefault(""), "/generate" >> ]

FallbackNote ==
  "\n\n(Note: There were images in this prompt but they couldn't be processed)"

\* the request of the retry: no images, finalPrompt with the note
OllamaFallbackData(first) ==
  [ images |-> 0, prompt |-> first.prompt \o << FallbackNote >>,
    payloads |-> << >>, roles |-> << >>, url |-> first.url ]

\* The retry is sent for every failed first request, images or not.
RetriesAlways(first) == TRUE

\* if (images.length > 0) in the catch of the first request
RetriesWithoutImages(first) == first.images > 0


\* urlData.startsWith("data:image/")
StartsWithDataImage(url) ==
  url \in { DataUrl, EmptyDataUrl, "data:image/png;base64,WIDE" }

\* GeminiProvider's geminiParts, message by message: the text parts and the
\* number of inlineData parts.
RECURSIVE GeminiText(_)
GeminiText(messages) ==
  IF messages = << >> THEN << >>
  ELSE LET m == Head(messages)
       IN  ( IF m.role = "system" THEN << "System instruction: " >> \o Str(m.text)
             ELSE IF m.isArray THEN PartsText(m.parts)
             ELSE Str(m.text) )
           \o GeminiText(Tail(messages))

RECURSIVE GeminiImages(_)
GeminiImages(messages) ==
  IF messages = << >> THEN 0
  ELSE LET m == Head(messages)
           inline == { i \in DOMAIN m.parts :
                         /\ m.parts[i].type = "image_url"
                         /\ StartsWithDataImage(m.parts[i].url) }
       IN  ( IF m.role # "system" /\ m.isArray THEN Cardinality(inline) ELSE 0 )
           + GeminiImages(Tail(messages))

\* payloads: urlData.split(",")[1] of each inlineData part; roles: the
\* one content of generateContent has role user
GeminiRequestData(messages) ==
  LET data(url) == IF url = EmptyDataUrl THEN "" ELSE Base64Match(url)[1]
      inline(m) == SelectSeq(m.parts,
                             LAMBDA part : /\ part.type = "image_url"
                                           /\ StartsWithDataImage(part.url))
      RECURSIVE payloads(_)
      payloads(ms) ==
        IF ms = << >> THEN << >>
        ELSE ( IF Head(ms).role # "system" /\ Head(ms).isArray
               THEN [ i \in DOMAIN inline(Head(ms)) |->
                        data(inline(Head(ms))[i].url) ]
               ELSE << >> )
             \o payloads(Tail(ms))
  IN  [ images   |-> GeminiImages(messages),
        prompt   |-> GeminiText(messages),
        payloads |-> payloads(messages),
        roles    |-> << "user" >> ]

\* OpenAIProvider passes options on unchanged: every text and every image
\* part of every message.
RECURSIVE OpenAIText(_)
OpenAIText(messages) ==
  IF messages = << >> THEN << >>
  ELSE ( IF Head(messages).isArray THEN PartsText(Head(messages).parts)
         ELSE Str(Head(messages).text) )
       \o OpenAIText(Tail(messages))

RECURSIVE OpenAIImages(_)
OpenAIImages(messages) ==
  IF messages = << >> THEN 0
  ELSE Cardinality({ i \in DOMAIN Head(messages).parts :
                       Head(messages).parts[i].type = "image_url" })
       + OpenAIImages(Tail(messages))

\* payloads: the base64 data in the urls of the image parts, which are
\* passed on as they are; roles: the roles of the messages
OpenAIRequestData(messages) ==
  LET RECURSIVE payloads(_)
      payloads(ms) ==
        IF ms = << >> THEN << >>
        ELSE PartsImages(Head(ms).parts) \o payloads(Tail(ms))
  IN  [ images   |-> OpenAIImages(messages),
        prompt   |-> OpenAIText(messages),
        payloads |-> payloads(messages),
        roles    |-> [ i \in DOMAIN messages |-> messages[i].role ] ]

\* the first request chat.completions.create sends for options.messages
RequestData(kind, messages) ==
  IF kind = "ollama" THEN OllamaRequestData(messages)
  ELSE IF kind = "gemini" THEN GeminiRequestData(messages)
  ELSE OpenAIRequestData(messages)

\* isInitialized() after initialize(cfg) on an instance that answered
\* wasReady before; outcome is the probe's, for OllamaProvider.
ReadyAfterInitialize(kind, wasReady, cfg, outcome) ==
  IF kind = "ollama" THEN ProbeConnected(wasReady, outcome)
  ELSE wasReady \/ InitializeNow(kind, cfg)

\* The options.messages the calls are made with: the extraction request of
\* processScreenshotsHelper (system, then text and one screenshot), the
\* solution request (system, then a string), the extraction request with a
\* screenshot wider than 1024 pixels, and requests whose images are
\* absent, not data URLs, empty, two, or in a later user message.
SystemText  == "You are a coding challenge interpreter."
UserText    == "Extract the coding problem."
Requests ==
  { << StringMessage("system", SystemText),
       ArrayMessage("user", << TextPart(UserText), ImagePart(DataUrl) >>) >>,
    << StringMessage("system", SystemText), StringMessage("user", UserText) >>,
    << StringMessage("system", SystemText),
       ArrayMessage("user", << TextPart(UserText),
                               ImagePart("data:image/png;base64,WIDE") >>) >>,
    << ArrayMessage("user", << TextPart(UserText) >>) >>,
    << ArrayMessage("user", << TextPart(UserText), ImagePart(HttpUrl) >>) >>,
    << ArrayMessage("user", << ImagePart(EmptyDataUrl) >>) >>,
    << ArrayMessage("user", << ImagePart(DataUrl), ImagePart(DataUrl) >>) >>,
    << StringMessage("user", UserText),
       ArrayMessage("user", << TextPart(UserText), ImagePart(DataUrl) >>) >> }

CallOutcomes == { "ok", "fail" }

\* a provider of any class, just constructed
AdapterInit ==
  /\ aKind \in { ProviderClass(t) : t \in Providers }
  /\ aReady = FALSE
  /\ aCalls = 0
  /\ aPc = "idle"
  /\ aRequest = << >>
  /\ aReadyAtCall = FALSE
  /\ aSent = << >>
  /\ aReplies = << >>
  /\ aError = "none"
  /\ aInitResult = "none"
  /\ aBaseUrl = "http://localhost:11434/api"

\* What initialize(cfg) returns on an instance that answered wasReady
\* before: the providers' try/catch turns every exception into false.
InitializeReturns(kind, wasReady, cfg, outcome) ==
  IF kind = "ollama" THEN InitializeProbeResult(wasReady, outcome)
  ELSE InitializeNow(kind, cfg)

\* provider.initialize(cfg) runs to its end.  OllamaProvider stores
\* config.ollamaUrl || default in this.baseUrl and probes <baseUrl>/tags.
Initialize(cfg, outcome) ==
  /\ aReady' = ReadyAfterInitialize(aKind, aReady, cfg, outcome)
  /\ aBaseUrl' = IF aKind = "ollama" THEN BaseUrlOrDefault(cfg.ollamaUrl)
                 ELSE aBaseUrl
  /\ aInitResult' = IF InitializeReturns(aKind, aReady, cfg, outcome)
                    THEN "true" ELSE "false"
  /\ UNCHANGED << aKind, aCalls, aPc, aRequest, aReadyAtCall, aSent, aReplies,
                  aError >>
  /\ UNCHANGED << pvars, tvars >>

\* provider.chat.completions.create({ messages }) up to its first request.
Create(messages) ==
  /\ aPc \in { "idle", "returned", "threw" }
  /\ aCalls < MaxCalls
  /\ aCalls' = aCalls + 1
  /\ aRequest' = messages
  /\ aReadyAtCall' = aReady
  /\ aReplies' = << >>
  /\ IF CreateThrowsNotInitialized(aKind, aReady)
     THEN /\ aPc' = "threw"
          /\ aError' = "notInitialized"
          /\ aSent' = << >>
     ELSE /\ aPc' = "first"
          /\ aError' = "none"
          /\ aSent' = << RequestData(aKind, messages) >>
  /\ UNCHANGED << aKind, aReady, aInitResult, aBaseUrl >>
  /\ UNCHANGED << pvars, tvars >>

\* The backend answers the outstanding request; create resumes.
BackendResponds(outcome) ==
  /\ aPc \in { "first", "second" }
  /\ aReplies' = Append(aReplies, outcome)
  /\ IF outcome = "ok"
     THEN /\ aPc' = "returned"
          /\ UNCHANGED << aSent, aError >>
     ELSE IF aPc = "first" /\ aKind = "ollama" /\ RetriesWithoutImages(aSent[1])
     THEN /\ aPc' = "second"
          /\ aSent' = Append(aSent, OllamaFallbackData(aSent[1]))
          /\ UNCHANGED aError
     ELSE /\ aPc' = "threw"
          /\ aError' = aPc
          /\ UNCHANGED aSent
  /\ UNCHANGED << aKind, aReady, aCalls, aRequest, aReadyAtCall, aInitResult,
                  aBaseUrl >>
  /\ UNCHANGED << pvars, tvars >>

AdapterNext ==
  \/ \E cfg \in AnyStoredConfigs \cup
                  \* and one whose Ollama server is another machine
                  { MergeConfig(defaultConfig,
                                [ modelProvider |-> "ollama",
                                  ollamaUrl |-> "http://remote:11434/api" ]) },
        o \in ProbeOutcomes :
       Initialize(cfg, o)
  \/ \E messages \in Requests : Create(messages)
  \/ \E o \in CallOutcomes : BackendResponds(o)

AdapterSpecInit ==
  HelperInitWith({ defaultConfig }) /\ AdapterInit /\ StagesIdle

SpecAdapter == AdapterSpecInit /\ [][AdapterNext]_vars

\* C9: for one chat.completions.create call on OllamaProvider the backend
\* receives at most two generate requests; a second one is sent exactly if
\* the first failed and carried at least one image; it carries no images and
\* the first prompt with the note appended; if it fails too its error is
\* thrown; if the first fails and carried no image that error is thrown and
\* nothing is retried.
C9_OllamaRetriesOnceWithoutImages ==
  ( aKind = "ollama" /\ aCalls > 0 ) =>
    /\ Len(aSent) <= 2
    /\ Len(aSent) = 2 <=>
         ( Len(aReplies) >= 1 /\ aReplies[1] = "fail" /\ aSent[1].images > 0 )
    /\ Len(aSent) = 2 =>
         /\ aSent[2].images = 0
         /\ aSent[2].prompt = aSent[1].prompt \o << FallbackNote >>
    /\ ( Len(aReplies) = 2 /\ aReplies[2] = "fail" ) =>
         ( aPc = "threw" /\ aError = "second" )
    /\ ( Len(aReplies) = 1 /\ aReplies[1] = "fail" /\ aSent[1].images = 0 ) =>
         ( aPc = "threw" /\ aError = "first" /\ Len(aSent) = 1 )

\* The extraction request with one screenshot failed twice: the backend got
\* the request with the image, then the retry without, and the retry's error
\* was thrown.
C9_Witness ==
  /\ aKind = "ollama"
  /\ aRequest = << StringMessage("system", SystemText),
                   ArrayMessage("user", << TextPart(UserText),
                                           ImagePart(DataUrl) >>) >>
  /\ aReplies = << "fail", "fail" >>
  /\ Len(aSent) = 2 /\ aSent[1].images = 1
  /\ aPc = "threw" /\ aError = "second"

\* C10: for each provider class, chat.completions.create invoked while
\* isInitialized() is false throws and sends no request to the backend.
C10_NotInitializedSendsNothing ==
  ( aCalls > 0 /\ ~aReadyAtCall ) => ( aPc = "threw" /\ aSent = << >> )


\* C11: whenever initialize(config) has returned false, on a fresh instance
\* or on one that was initialized before, isInitialized() is false
\* afterwards.
C11_FalseLeavesNotReady ==
  aInitResult = "false" => ~aReady


\* ===================================================================
\* The texts the backend answers with, and what the stages parse out of
\* them.  A string is the list of its pieces; the pieces that matter to the
\* code's replace, includes and match calls are kept apart from plain text
\* ("two sum", "linear", ...).
\* ===================================================================
MaxItems == 2

\* the three backquotes of a markdown code fence
Fence     == "<fence>"
BracePair == "}{"
Newline   == "<newline>"

\* text.replace(/```json|```/g, "") on a string
RemoveFences(s) == SelectSeq(s, LAMBDA piece : piece # Fence)

\* text.replace(/}{/g, "},{") on a string
SplitBraces(s) ==
  [ i \in DOMAIN s |-> IF s[i] = BracePair THEN "},{" ELSE s[i] ]

\* The response text of the extraction call.  A JSON object of it is a
\* record of some of the fields problem_statement, constraints,
\* example_input, example_output; constraints is an array of strings, the
\* others are strings.
\*   form "object"  one JSON object;
\*   form "array"   [o1, o2, ...], closed or with its last "]" missing;
\*   form "concat"  o1o2... with nothing between "}" and "{";
\*   form "prose"   no JSON: perhaps quoted "field": value pairs (quoted),
\*                  perhaps a line "...problem...: rest" (line);
\* fenced says that ```json ... ``` surrounds it.
JsonResponse(form, fenced, items, closed) ==
  [ form |-> form, fenced |-> fenced, items |-> items, closed |-> closed,
    quoted |-> << >>, line |-> << >> ]

ProseResponse(quoted, line) ==
  [ form |-> "prose", fenced |-> FALSE, items |-> << >>, closed |-> TRUE,
    quoted |-> quoted, line |-> line ]

\* jsonText.includes("}{"): between two objects, or inside a string
IncludesBracePair(r) ==
  LET strings(o) ==
        ( IF "problem_statement" \in DOMAIN o
          THEN << o.problem_statement >> ELSE << >> )
        \o ( IF "constraints" \in DOMAIN o THEN o.constraints ELSE << >> )
        \o ( IF "example_input" \in DOMAIN o
             THEN << o.example_input >> ELSE << >> )
        \o ( IF "example_output" \in DOMAIN o
             THEN << o.example_output >> ELSE << >> )
  IN  \/ r.form = "concat" /\ Len(r.items) > 1
      \/ \E i \in DOMAIN r.items :
           \E j \in DOMAIN strings(r.items[i]) :
             \E k \in DOMAIN strings(r.items[i])[j] :
               strings(r.items[i])[j][k] = BracePair

\* JavaScript values a ProblemInfo can be; null is [ kind |-> "null" ]
Undefined        == [ kind |-> "undefined" ]
ObjectValue(o)   == [ kind |-> "object", value |-> o ]
ArrayValue(list) == [ kind |-> "array", value |-> list ]

\* a field of object o is truthy: present, and not the empty string
Truthy(o, f) == f \in DOMAIN o /\ Len(o[f]) > 0

\* the predicate of problemInfo.find(...); an element that is itself an
\* array has none of the fields
CompleteProblem(v) ==
  /\ v.kind = "object"
  /\ Truthy(v.value, "problem_statement")
  /\ \/ Truthy(v.value, "constraints")
     \/ Truthy(v.value, "example_input") /\ Truthy(v.value, "example_output")

SelectFirst(list) == IF Len(list) > 0 THEN list[1] ELSE Undefined

\* completeProblem || problemInfo[0]
SelectProblem(list) ==
  IF \E i \in DOMAIN list : CompleteProblem(list[i])
  THEN list[ CHOOSE i \in DOMAIN list :
               /\ CompleteProblem(list[i])
               /\ \A j \in 1..(i - 1) : ~CompleteProblem(list[j]) ]
  ELSE IF Len(list) > 0 THEN list[1] ELSE Undefined

\* jsonText: the response with every fence marker removed, a missing last
\* "]" appended, and, when it includes "}{", every "}{" turned into "},{"
\* and the whole put between "[" and "]".  A replace on the text changes
\* every string inside every object.
CleanedItems(r) ==
  LET map(Op(_), o) ==
        [ f \in DOMAIN o |->
            IF f = "constraints" THEN [ i \in DOMAIN o[f] |-> Op(o[f][i]) ]
            ELSE Op(o[f]) ]
      unfenced == [ i \in DOMAIN r.items |-> map(RemoveFences, r.items[i]) ]
      wrapped  == IncludesBracePair([ r EXCEPT !.items = unfenced ])
  IN  [ wrapped |-> wrapped,
        items   |-> IF wrapped
                    THEN [ i \in DOMAIN unfenced |-> map(SplitBraces, unfenced[i]) ]
                    ELSE unfenced ]

\* JSON.parse(jsonText): the value, or a SyntaxError
JsonParses(r) == r.form # "prose"

JsonValue(r) ==
  LET c    == CleanedItems(r)
      objs == [ i \in DOMAIN c.items |-> ObjectValue(c.items[i]) ]
  IN  CASE r.form = "object" /\ ~c.wrapped -> objs[1]
        [] r.form = "object" /\ c.wrapped  -> ArrayValue(objs)
        [] r.form = "array" /\ ~c.wrapped  -> ArrayValue(objs)
        [] r.form = "array" /\ c.wrapped   -> ArrayValue(<< ArrayValue(objs) >>)
        [] OTHER                           -> ArrayValue(objs)

\* the try block of the JSON strategy
JsonStrategy(r) ==
  LET v == JsonValue(r)
  IN  IF v.kind = "array" THEN SelectProblem(v.value) ELSE v

\* the four regular expressions run on the raw response text; r.quoted
\* holds the "field": value pairs that stand in the text
RegexMatches(r) ==
  Len(r.quoted) > 0 /\ Truthy(r.quoted[1], "problem_statement")

\* the object built from the matches; "".split(",") is [""]
RegexStrategy(r) ==
  LET q == r.quoted[1]
  IN  ObjectValue(
        [ problem_statement |-> q.problem_statement,
          constraints       |-> IF "constraints" \notin DOMAIN q THEN << >>
                                ELSE IF Len(q.constraints) = 0 THEN << << >> >>
                                ELSE q.constraints,
          example_input     |-> IF Truthy(q, "example_input")
                                THEN q.example_input ELSE << >>,
          example_output    |-> IF Truthy(q, "example_output")
                                THEN q.example_output ELSE << >> ])

\* the last approach: the first line with "problem" and ":" in it; r.line
\* holds what follows its first colon, trimmed
LineMatches(r) == Len(r.line) > 0

LineStrategy(r) ==
  ObjectValue(
    [ problem_statement |-> r.line[1], constraints |-> << >>,
      example_input |-> << >>, example_output |-> << >> ])

\* Extraction parsing as a whole: the strategy that produced the
\* ProblemInfo, and the ProblemInfo
ParseExtraction(r) ==
  IF JsonParses(r) THEN [ via |-> "json", info |-> JsonStrategy(r) ]
  ELSE IF RegexMatches(r) THEN [ via |-> "regex", info |-> RegexStrategy(r) ]
  ELSE IF LineMatches(r) THEN [ via |-> "line", info |-> LineStrategy(r) ]
  ELSE [ via |-> "none", info |-> Undefined ]

\* generateSolutionsHelper goes past `if (!problemInfo)`
InfoPresent(info) == info.kind \notin { "undefined", "null" }

\* -------------------------------------------------------------------
\* The responses the parsing code is run on.
\* -------------------------------------------------------------------
\* an object with the given fields; an argument is << >> for a field the
\* object lacks and << v >> for the field with value v
ObjectOf(statement, constraints, input, output) ==
  LET field(f, opt) == IF Len(opt) = 0 THEN [ x \in { } |-> x ] ELSE f :> opt[1]
  IN  field("problem_statement", statement) @@ field("constraints", constraints)
        @@ field("example_input", input) @@ field("example_output", output)

\* the single objects: with and without a statement, with fence markers
\* and brace pairs inside their strings
SingleObjects ==
  { ObjectOf(s, << c >>, << i >>, << o >>) :
      s \in { << >>, << << >> >>, << << "two sum" >> >>,
              << << "two sum", BracePair >> >>, << << "two sum", Fence >> >> },
      c \in { << >>, << << "two sum" >> >> },
      i \in { << >>, << "two sum" >> },
      o \in { << >>, << "two sum" >> } }

\* the elements of arrays
ArrayObjects ==
  { ObjectOf(<< s >>, << c >>, << i >>, << << "two sum" >> >>) :
      s \in { << >>, << "two sum" >> },
      c \in { << >>, << << "two sum" >> >> },
      i \in { << >>, << "two sum" >> } }
  \cup { ObjectOf(<< << "two sum" >> >>, << << >> >>,
                  << << BracePair >> >>, << << "two sum" >> >>) }

ExtractionResponses ==
  LET lists == UNION { [ 1..k -> ArrayObjects ] : k \in 0..MaxItems }
  IN  { JsonResponse("object", f, << o >>, TRUE) :
          f \in BOOLEAN, o \in SingleObjects }
      \cup { JsonResponse("array", f, l, c) :
               f \in BOOLEAN, l \in lists, c \in BOOLEAN }
      \cup { JsonResponse("concat", f, l, TRUE) :
               f \in BOOLEAN, l \in { m \in lists : Len(m) > 1 } }
      \cup { ProseResponse(<< >>, l) :
               l \in { << >>, << << >> >>, << << "two sum" >> >> } }
      \cup { ProseResponse(<< q >>, << << "two sum" >> >>) :
               q \in { o \in ArrayObjects : Truthy(o, "problem_statement") } }

\* processScreenshotsHelper from the extraction response to the await of
\* the solution call, or to its return when there is none.  A provider is
\* installed and the main window exists.
ExtractionReturns ==
  /\ xPc = "extracted"
  /\ LET p == ParseExtraction(xResponse)
     IN  /\ xVia' = p.via
         /\ IF p.via = "none"
            THEN /\ xInfo' = xInfo
                 /\ xPc' = "done"
                 /\ xOutcome' = MsgParseFailed
            ELSE /\ xInfo' = p.info
                 /\ IF InfoPresent(p.info)
                    THEN xPc' = "solving" /\ xOutcome' = xOutcome
                    ELSE xPc' = "done" /\ xOutcome' = MsgNoProblemInfo
  /\ UNCHANGED << xResponse, xSolution, xData, xDebug, xEarlier >>
  /\ UNCHANGED << pvars, avars >>

\* -------------------------------------------------------------------
\* generateSolutionsHelper's parsing of the solution response.  The text
\* is the list of its pieces: a fence marker, a run of word characters, a
\* run of other characters, a blank, a line break, a heading.
\* -------------------------------------------------------------------
\* \s and \w+, piece by piece
IsSpace(piece) == piece \in { Newline, " " }
IsWord(piece)  == piece \in { "cpp", "c", "return", "linear", "fo", "because" }

\* the pieces [A-Z] matches the start of, under the i flag
LetterPieces ==
  { "cpp", "c", "return", "linear", "fo", "because", "Time complexity:",
    "Space complexity:", "O(n)", "O(1)", "o(x)" }

\* /O\([^)]+\)/i matches the piece
MatchesNotation(piece) == piece \in { "O(n)", "O(1)", "o(x)" }

\* String.prototype.trim
Trim(s) ==
  LET keep == { i \in DOMAIN s : ~IsSpace(s[i]) }
  IN  IF keep = { } THEN << >>
      ELSE SubSeq(s, CHOOSE i \in keep : \A j \in keep : i <= j,
                     CHOOSE i \in keep : \A j \in keep : j <= i)

\* \s*: the index after the run of blanks and line breaks from index k on
SkipSpace(s, k) ==
  CHOOSE m \in k..(Len(s) + 1) :
    /\ \A i \in k..(m - 1) : IsSpace(s[i])
    /\ m = Len(s) + 1 \/ ~IsSpace(s[m])

\* responseContent.match(/```(?:\w+)?\s*([\s\S]*?)```/): the first fence
\* that has a fence after it, an optional word, blanks and line breaks,
\* and the capture up to the next fence;
\* code = codeMatch ? codeMatch[1].trim() : responseContent
ExtractCode(s) ==
  LET fences == { i \in DOMAIN s : s[i] = Fence }
      open   == CHOOSE i \in fences : \A j \in fences : i <= j
      close  == CHOOSE i \in fences \ { open } :
                  \A j \in fences \ { open } : i <= j
      word   == IF IsWord(s[open + 1]) THEN open + 2 ELSE open + 1
  IN  IF Cardinality(fences) > 1
      THEN Trim(SubSeq(s, SkipSpace(s, word), close - 1))
      ELSE s

\* /Time complexity:?\s*([^\n]+(?:\n[^\n]+)*?)(?=\n\s*(?:Space complexity|$))/i
\* and its Space complexity twin, whose lookahead is (?:[A-Z]|$), tried at
\* the heading s[h]: the captures << k, e >> that start after the heading
\* and any blanks, hold no empty line, and are followed by a line break,
\* blanks, and then a piece of `ahead` or the end of the text.
HeadingCaptures(ahead, s, h) ==
  { ke \in ((h + 1)..SkipSpace(s, h + 1)) \X ((h + 1)..Len(s)) :
      LET k == ke[1]
          e == ke[2]
      IN  /\ k <= e /\ s[k] # Newline /\ s[e] # Newline
          /\ \A i \in k..(e - 1) : ~(s[i] = Newline /\ s[i + 1] = Newline)
          /\ e + 1 <= Len(s) /\ s[e + 1] = Newline
          /\ \E m \in (e + 2)..(Len(s) + 1) :
               /\ \A i \in (e + 2)..(m - 1) : IsSpace(s[i])
               /\ m = Len(s) + 1 \/ s[m] \in ahead }

\* match[1] of the leftmost heading where the pattern matches, \s* greedy
\* and the capture lazy; << >> when there is no match
HeadingCapture(ahead, s, head) ==
  LET hs  == { h \in DOMAIN s :
                 s[h] = head /\ HeadingCaptures(ahead, s, h) # { } }
      h   == CHOOSE i \in hs : \A j \in hs : i <= j
      kes == HeadingCaptures(ahead, s, h)
      k   == CHOOSE i \in { ke[1] : ke \in kes } :
               \A j \in { ke[1] : ke \in kes } : j <= i
      es  == { ke[2] : ke \in { x \in kes : x[1] = k } }
      e   == CHOOSE i \in es : \A j \in es : i <= j
  IN  IF hs = { } THEN << >> ELSE SubSeq(s, k, e)

\* the if / else if after timeComplexity = timeMatch[1].trim()
EnsureNotation(c) ==
  LET ns == { i \in DOMAIN c : MatchesNotation(c[i]) }
      n  == CHOOSE i \in ns : \A j \in ns : i <= j
  IN  IF ns = { } THEN << "O(n)", " ", "-", " " >> \o c
      ELSE IF \A i \in DOMAIN c : c[i] \notin { "-", "because" }
      THEN << c[n], " ", "-", " " >>
             \o Trim(SubSeq(c, 1, n - 1) \o SubSeq(c, n + 1, Len(c)))
      ELSE c

TimeComplexity(s) ==
  LET capture == HeadingCapture({ "Space complexity:" }, s, "Time complexity:")
  IN  IF capture = << >>
      THEN << "O(n)", " ", "-", " ",
              "Linear time complexity because we only iterate through the array once. Each element is processed exactly one time, and the hashmap lookups are O(1) operations." >>
      ELSE EnsureNotation(Trim(capture))

SpaceComplexity(s) ==
  LET capture == HeadingCapture(LetterPieces, s, "Space complexity:")
  IN  IF capture = << >>
      THEN << "O(n)", " ", "-", " ",
              "Linear space complexity because we store elements in the hashmap. In the worst case, we might need to store all elements before finding the solution pair." >>
      ELSE EnsureNotation(Trim(capture))

\* formattedResponse, its thoughts list left out
SolutionResult(s) ==
  [ code             |-> ExtractCode(s),
    time_complexity  |-> TimeComplexity(s),
    space_complexity |-> SpaceComplexity(s) ]

\* A solution response: an optional fenced block with a language tag, an
\* optional Time complexity line, an optional Space complexity line, and a
\* last line break or none; an argument is << >> for a part the text lacks.
SolutionText(tagged, time, space, ends) ==
  ( IF Len(tagged) = 0 THEN << >>
    ELSE << Fence >> \o tagged[1]
           \o << Newline, "return", Newline, Fence, Newline >> )
  \o ( IF Len(time) = 0 THEN << >>
       ELSE << "Time complexity:", " " >> \o time[1] \o << Newline >> )
  \o ( IF Len(space) = 0 THEN << >>
       ELSE << "Space complexity:", " " >> \o space[1] )
  \o ( IF ends THEN << Newline >> ELSE << >> )

\* The solution responses; `block` keeps what stands between the block's
\* opening line and its closing fence, `time` and `space` the text from
\* each heading to the next heading or the end: the rest of the heading's
\* line and, in one case, a line after it.
SolutionResponses ==
  LET optional(S) == { << >> } \cup { << x >> : x \in S }
      tags  == { << >>, << "cpp" >>, << "c", "++" >> }
      lines == { << "linear" >>, << "O(n)" >>, << "O(1)", " ", "linear" >>,
                 << "O(n)", " ", "-", " ", "linear" >>, << "fo", "o(x)" >>,
                 << "linear", Newline, "O(1)", " ", "return" >> }
  IN  { [ text  |-> SolutionText(tagged, time, space, ends),
          block |-> IF Len(tagged) = 0 THEN << >> ELSE << << "return" >> >>,
          time  |-> time,
          space |-> space ] :
          tagged \in optional(tags), time \in optional(lines),
          space \in optional(lines), ends \in BOOLEAN }

\* processScreenshotsHelper from the solution call's settling to its
\* return: generateSolutionsHelper's parsing or catch, then the success
\* return, the rethrow into the outer catch, or, in the line-scan branch,
\* the fall through to the parse failure.
SolutionSettles(outcome) ==
  /\ xPc = "solving"
  /\ xPc' = "done"
  /\ IF outcome = "ok"
     THEN /\ xData' = SolutionResult(xSolution.text)
          /\ xOutcome' = "success"
     ELSE /\ xData' = xData
          /\ xOutcome' = IF xVia = "line" THEN MsgParseFailed
                         ELSE StageErrorMessage(outcome)
  /\ UNCHANGED << xResponse, xVia, xInfo, xSolution, xDebug, xEarlier >>
  /\ UNCHANGED << pvars, avars >>

\* -------------------------------------------------------------------
\* processExtraScreenshotsHelper's parsing of the debug response.  The
\* text is again the list of its pieces: a section marker, a keyword
\* heading, a phrase, a bold mark, a dash, a bullet (U+2022, written
\* "<bullet>"), a blank, a line break.
\* -------------------------------------------------------------------
\* s.toLowerCase().includes(phrase): toLowerCase piece by piece, and the
\* phrases each lower-cased piece holds
LowerIncludes(s, phrase) ==
  LET lower(piece) ==
        CASE piece = "No Issues Found"           -> "no issues found"
          [] piece = "Off by one"                -> "off by one"
          [] piece = "You should be careful"     -> "you should be careful"
          [] piece = "No code changes required." -> "no code changes required."
          [] piece = "Loop bound"                -> "loop bound"
          [] piece = "Issues identified:"        -> "issues identified:"
          [] piece = "Code changes:"             -> "code changes:"
          [] piece = "Explanation:"              -> "explanation:"
          [] piece = "Key points:"               -> "key points:"
          [] OTHER                               -> piece
      holds(piece) ==
        CASE piece = "no issues found"           -> { "no issues" }
          [] piece = "you should be careful"     -> { "should be" }
          [] piece = "no code changes required." -> { "no code changes" }
          [] piece = "code changes:"             -> { "code changes" }
          [] piece = "explanation:"              -> { "explanation" }
          [] piece = "key points:"               -> { "key points" }
          [] OTHER                               -> { }
  IN  \E i \in DOMAIN s : phrase \in holds(lower(s[i]))

\* cleanContent.  Of its six replacements the texts here give work to
\* three: /\*\*(.*?)\*\*/g drops the bold marks that pair up on a line,
\* /\*(.*?)\*/g then drops a bold mark left alone (its two stars are an
\* empty italic span), and /^\s*[-*]\s+/gm turns the blanks and line
\* breaks before a dash at a line's start, the dash, and the blanks and
\* line breaks after it into a bullet and one blank.
CleanContent(s) ==
  LET t == SelectSeq(s, LAMBDA piece : piece # "**")
      from(i) == CHOOSE k \in 1..i :
                   /\ k = 1 \/ t[k - 1] = Newline
                   /\ \A j \in k..(i - 1) : IsSpace(t[j])
                   /\ \A m \in 1..(k - 1) :
                        ~ /\ m = 1 \/ t[m - 1] = Newline
                          /\ \A j \in m..(i - 1) : IsSpace(t[j])
      dashes == { i \in 1..(Len(t) - 1) :
                    /\ t[i] = "-" /\ IsSpace(t[i + 1])
                    /\ \E k \in 1..i : /\ k = 1 \/ t[k - 1] = Newline
                                       /\ \A j \in k..(i - 1) : IsSpace(t[j]) }
      gone   == { j \in DOMAIN t :
                    \E i \in dashes :
                      /\ from(i) <= j /\ j < SkipSpace(t, i + 1)
                      /\ j \notin { i, i + 1 } }
  IN  SelectSeq([ i \in DOMAIN t |->
                    IF i \in dashes THEN "<bullet>"
                    ELSE IF i - 1 \in dashes THEN " "
                    ELSE IF i \in gone THEN "<gone>"
                    ELSE t[i] ],
                LAMBDA piece : piece # "<gone>")

\* sections: the split at /-----.*?-----/ when the text includes the
\* ISSUES IDENTIFIED marker, the keyword patterns when it does not
DebugSections(c) ==
  LET marks   == { i \in DOMAIN c :
                     c[i] \in { "----- ISSUES IDENTIFIED -----",
                                "----- CODE CHANGES -----",
                                "----- EXPLANATION -----",
                                "----- KEY POINTS -----" } }
      mark(n) == CHOOSE i \in marks : Cardinality({ j \in marks : j < i }) = n - 1
      \* parts[n].trim()
      part(n) == Trim(SubSeq(c, mark(n) + 1,
                             IF n < Cardinality(marks) THEN mark(n + 1) - 1
                             ELSE Len(c)))
      \* match[1].trim() of /(?:heads):([\s\S]*?)(?:stops|$)/i
      capture(heads, stops) ==
        LET hs == { i \in DOMAIN c : c[i] \in heads }
            h  == CHOOSE i \in hs : \A j \in hs : i <= j
            es == { j \in (h + 1)..Len(c) :
                      \E w \in stops : LowerIncludes(<< c[j] >>, w) }
            e  == IF es = { } THEN Len(c) + 1
                  ELSE CHOOSE i \in es : \A j \in es : i <= j
        IN  IF hs = { } THEN << >> ELSE Trim(SubSeq(c, h + 1, e - 1))
  IN  IF \E i \in DOMAIN c : c[i] = "----- ISSUES IDENTIFIED -----"
      THEN IF Cardinality(marks) >= 3
           THEN [ issues      |-> part(1),
                  codeChanges |-> part(2),
                  explanation |-> part(3),
                  keyPoints   |-> IF Cardinality(marks) >= 4 THEN part(4)
                                  ELSE << >> ]
           ELSE [ issues |-> << >>, codeChanges |-> << >>,
                  explanation |-> << >>, keyPoints |-> << >> ]
      ELSE [ issues      |-> capture({ "Issues identified:" },
                                     { "code changes", "explanation" }),
             codeChanges |-> capture({ "Code changes:" },
                                     { "explanation", "key points" }),
             explanation |-> capture({ "Explanation:" }, { "key points" }),
             keyPoints   |-> capture({ "Key points:" }, { }) ]

\* a classification that forgets the empty issues section
NoIssuesIgnoringEmpty(sections) ==
  \/ LowerIncludes(sections.issues, "no issues")
  \/ LowerIncludes(sections.issues, "code looks correct")
  \/ LowerIncludes(sections.issues, "not found")
  \/ LowerIncludes(sections.codeChanges, "no code changes")

\* a classification that remembers the parse before it
NoIssuesSticky(sections) ==
  \/ NoIssuesIgnoringEmpty(sections)
  \/ Trim(sections.issues) = << >>
  \/ "status" \in DOMAIN xData /\ xData.status = "HAS_CHANGES"

\* noIssuesFound
NoIssuesFound(sections) ==
  \/ LowerIncludes(sections.issues, "no issues")
  \/ LowerIncludes(sections.issues, "code looks correct")
  \/ LowerIncludes(sections.issues, "not found")
  \/ LowerIncludes(sections.codeChanges, "no code changes")
  \/ Trim(sections.issues) = << >>

\* response: code and status, from the cleaned text's sections.  codeLines
\* are the lines of sections.codeChanges that pass the filter, joined by
\* line breaks again.
DebugResult(sections) ==
  LET s        == sections.codeChanges
      lineOf(i) == Cardinality({ j \in 1..(i - 1) : s[j] = Newline })
      line(n)  == { i \in DOMAIN s : s[i] # Newline /\ lineOf(i) = n }
      passes(n) ==
        /\ \A i \in line(n) :
             /\ ~LowerIncludes(<< s[i] >>, "should be")
             /\ ~LowerIncludes(<< s[i] >>, "recommend")
             /\ ~LowerIncludes(<< s[i] >>, "would change")
             /\ ~LowerIncludes(<< s[i] >>, "here's")
             /\ ~(s[i] = "<bullet>" /\ \A j \in line(n) : i <= j)
        /\ \E i \in line(n) : ~IsSpace(s[i])
      \* the line break before a line that passes stands for the join's,
      \* when a line that passes came before it
      taken    == { i \in DOMAIN s :
                      \/ s[i] # Newline /\ passes(lineOf(i))
                      \/ /\ s[i] = Newline /\ passes(lineOf(i) + 1)
                         /\ \E n \in 0..lineOf(i) : passes(n) }
      joined   == SelectSeq([ i \in DOMAIN s |->
                                IF i \in taken THEN s[i] ELSE "<gone>" ],
                            LAMBDA piece : piece # "<gone>")
  IN  IF NoIssuesFound(sections)
      THEN [ code |-> << "__NO_CODE_CHANGES_NEEDED__" >>, status |-> "NO_CHANGES" ]
      ELSE [ code   |-> IF /\ s # << >>
                           /\ ~LowerIncludes(s, "no code changes")
                           /\ Trim(joined) # << >>
                        THEN joined
                        ELSE << "__ANALYSIS_ONLY__" >>,
             status |-> "HAS_CHANGES" ]

\* thoughts: the matches of /(?:^|\n)\s*<bullet>\s*(.*?)(?:\n|$)/g in the
\* cleaned text, taken from left to right, each match starting after the
\* end of the one before it and taking the line break that ends it; then
\* what follows the bullet, trimmed, the empty and the short ones dropped,
\* the first five kept.  Without a match, the default thought.
Thoughts(c) ==
  LET \* t.length, piece by piece: five stands for five or more
      chars(piece) == CASE piece \in { " ", "-" } -> 1
                        [] piece = "ok"           -> 2
                        [] OTHER                  -> 5
      RECURSIVE length(_)
      length(t) == IF t = << >> THEN 0 ELSE chars(Head(t)) + length(Tail(t))
      begin(i)   == IF i = 1 THEN 1 ELSE i + 1
      bullet(i)  == SkipSpace(c, begin(i))
      matches(i) == /\ i = 1 \/ c[i] = Newline
                    /\ bullet(i) <= Len(c)
                    /\ c[bullet(i)] = "<bullet>"
      body(i)    == SkipSpace(c, bullet(i) + 1)
      end(i)     == CHOOSE e \in body(i)..(Len(c) + 1) :
                      /\ e = Len(c) + 1 \/ c[e] = Newline
                      /\ \A j \in body(i)..(e - 1) : c[j] # Newline
      RECURSIVE scan(_)
      scan(pos) ==
        LET starts == { i \in pos..Len(c) : matches(i) }
            i      == CHOOSE k \in starts : \A j \in starts : k <= j
        IN  IF starts = { } THEN << >>
            ELSE << Trim(SubSeq(c, body(i), end(i) - 1)) >> \o scan(end(i) + 1)
      lines == scan(1)
      kept  == SelectSeq(lines, LAMBDA t : length(t) >= 5)
  IN  IF lines = << >>
      THEN << << "Review the analysis to improve your solution" >> >>
      ELSE SubSeq(kept, 1, IF Len(kept) < 5 THEN Len(kept) ELSE 5)

\* processExtraScreenshotsHelper from the debug call's settling with a
\* response text to its success return.  The texts: the four markers with
\* the sections between them, the first three markers, the first marker
\* followed by keyword headings, keyword headings alone, no heading, and
\* bullet lines: one after the other, a short one, seven of them.
\* ("<gone>" in CleanContent and DebugResult marks a piece that is dropped.)
\* xEarlier keeps, or not, the parse for comparison with the later ones.
DebugReturns ==
  LET issues == { << >>, << "No Issues Found" >>, << "Off by one" >>,
                  << "**", "Off by one", "**" >> }
      codes  == { << >>, << "i += 1" >>, << "You should be careful" >>,
                  << "No code changes required." >>,
                  << "i += 1", Newline, "-", " ", "use a map", Newline,
                     Newline, "return" >> }
      marked(i, c, n) ==
        << "----- ISSUES IDENTIFIED -----", Newline >> \o i
        \o << Newline, "----- CODE CHANGES -----", Newline >> \o c
        \o << Newline, "----- EXPLANATION -----", Newline, "Loop bound" >>
        \o ( IF n = 4
             THEN << Newline, "----- KEY POINTS -----", Newline, "<bullet>", " ",
                     "use a map" >>
             ELSE << >> )
      worded(i, c) ==
        << "Issues identified:", " " >> \o i
        \o << Newline, "Code changes:", Newline >> \o c
        \o << Newline, "Explanation:", " ", "Loop bound" >>
      texts  == { marked(i, c, 4) : i \in issues, c \in codes }
                \cup { worded(i, c) :
                         i \in { << "No Issues Found" >>, << "Off by one" >> },
                         c \in { << "i += 1" >>, << "You should be careful" >> } }
                \cup { marked(<< "Off by one" >>, << "i += 1" >>, 3),
                       << "----- ISSUES IDENTIFIED -----", Newline >>
                         \o worded(<< "Off by one" >>, << "i += 1" >>),
                       << "Off by one", Newline, "i += 1" >>,
                       << "-", " ", "check bounds", Newline,
                          "-", " ", "use a map", Newline,
                          "-", " ", "add tests" >>,
                       << "Off by one", Newline, "<bullet>", " ", "ok" >>,
                       << "<bullet>", " ", "check bounds", Newline, Newline,
                          "<bullet>", " ", "ok", Newline, Newline,
                          "<bullet>", " ", "use a map", Newline, Newline,
                          "<bullet>", " ", "add tests", Newline, Newline,
                          "<bullet>", " ", "i += 1", Newline, Newline,
                          "<bullet>", " ", "return early", Newline, Newline,
                          "<bullet>", " ", "Loop bound" >> }
  IN  /\ xPc = "debugging"
      /\ \E text \in texts :
           LET clean    == CleanContent(text)
               sections == DebugSections(clean)
               result   == DebugResult(sections)
           IN  /\ xResponse' = [ form |-> "debug", text |-> text ]
               /\ xDebug' = [ cleanContent |-> clean, sections |-> sections ]
               /\ xData' = [ code     |-> result.code,
                             status   |-> result.status,
                             thoughts |-> Thoughts(clean) ]
               /\ xOutcome' = "success"
               /\ \E keep \in BOOLEAN :
                    xEarlier' = IF keep /\ xResponse.form = "debug"
                                THEN [ xEarlier EXCEPT !.again = TRUE ]
                                ELSE [ text |-> text, status |-> result.status,
                                       code |-> result.code, again |-> FALSE ]
      /\ UNCHANGED << xPc, xVia, xInfo, xSolution >>
      /\ UNCHANGED << pvars, avars >>

StagesNext ==
  \/ ExtractionReturns
  \/ \E outcome \in BackendOutcomes : SolutionSettles(outcome)
  \/ DebugReturns

\* Either an extraction response is in hand, or a solution call is
\* outstanding, its response to come, or debug calls are, one after the
\* other.
StagesInit ==
  LET object   == ObjectOf(<< << "two sum" >> >>, << << << "two sum" >> >> >>,
                           << << "two sum" >> >>, << << "two sum" >> >>)
      solution == [ text  |-> SolutionText(<< << "cpp" >> >>, << << "O(n)" >> >>,
                                           << << "O(1)" >> >>, TRUE),
                    block |-> << << "return" >> >>,
                    time  |-> << << "O(n)" >> >>,
                    space |-> << << "O(1)" >> >> ]
  IN  /\ HelperInitWith({ defaultConfig })
      /\ AdapterIdle
      /\ xOutcome = "none"
      /\ xData = [ code |-> << >> ]
      /\ xDebug = [ cleanContent |-> << >> ]
      /\ xEarlier = [ again |-> FALSE ]
      /\ \/ /\ xResponse \in ExtractionResponses
            /\ xPc = "extracted"
            /\ xVia = "none"
            /\ xInfo = [ kind |-> "null" ]
            /\ xSolution = solution
         \/ /\ xResponse = JsonResponse("object", FALSE, << object >>, TRUE)
            /\ xPc = "solving"
            /\ xVia = "json"
            /\ xInfo = ObjectValue(object)
            /\ xSolution \in SolutionResponses
         \/ /\ xResponse = [ form |-> "none" ]
            /\ xPc = "debugging"
            /\ xVia = "json"
            /\ xInfo = ObjectValue(object)
            /\ xSolution = solution

SpecStages == StagesInit /\ [][StagesNext]_vars

\* C12: the solution call is outstanding only after extraction has stored a
\* ProblemInfo with a non-empty problem statement.
C12_SolutionNeedsStatement ==
  xPc = "solving"
    => xInfo.kind = "object" /\ Truthy(xInfo.value, "problem_statement")

\* C13: when the extraction or the solution call of an initial pipeline is
\* rejected with HTTP 401, the terminal event the pipeline sends is
\* API_KEY_INVALID.
C13_BadCredentialEvent ==
  [][ \A p \in DOMAIN pipes :
        ( \/ \E parse \in ParseOutcomes : ExtractSettles(p, "http401", parse)
          \/ SolveSettles(p, "http401") )
        => pipes'[p].event = "API_KEY_INVALID" ]_vars


\* C14: a processing trigger whose provider lacks its credential or endpoint
\* starts no pipeline, and no pipeline that was started (INITIAL_START or
\* DEBUG_START sent, its reads or its initialization awaited, no create
\* issued yet) ends with the invalid-credential event because its adapter
\* could not be initialized.
C14_NoStartWithoutAdapter ==
  [][ /\ (ProcessScreenshots /\ ~hasApiKey(config)) => pipes' = pipes
      /\ \A p \in DOMAIN pipes :
           pipes[p].pc \in { "read", "waitinit" }
             => pipes'[p].event # "API_KEY_INVALID" ]_vars


C16_SolutionsViewHasProblemInfo ==
  view = "solutions"
    => /\ problemInfo # 0
       /\ \E p \in DOMAIN pipes :
            pipes[p].kind = "initial" /\ pipes[p].event = "SOLUTION_SUCCESS"


\* C17: once an extraction response that is one JSON object with the four
\* fields, fenced or not, has been parsed, the stored ProblemInfo is that
\* object with every field as it stood in the response, and the solution
\* stage has been invoked.
C17_SingleObjectStoredVerbatim ==
  ( /\ xPc # "extracted"
    /\ xResponse.form = "object"
    /\ DOMAIN xResponse.items[1] =
         { "problem_statement", "constraints", "example_input",
           "example_output" } )
  => /\ xInfo = ObjectValue(xResponse.items[1])
     /\ xPc = "solving" \/ xOutcome \notin { MsgParseFailed, MsgNoProblemInfo }


C19_CodeIsFirstBlock ==
  xOutcome = "success"
    => xData.code = IF Len(xSolution.block) > 0 THEN Trim(xSolution.block[1])
                    ELSE xSolution.text


\* C20: the time_complexity and the space_complexity of a SolutionResult
\* are both non-empty and both hold a Big-O notation, whether the heading
\* is missing, stands before a text without notation, or stands before a
\* text with notation.
C20_ComplexitiesCarryNotation ==
  xOutcome = "success"
    => /\ xData.time_complexity # << >>
       /\ xData.space_complexity # << >>
       /\ \E i \in DOMAIN xData.time_complexity :
            xData.time_complexity[i] \in { "O(n)", "O(1)" }
       /\ \E i \in DOMAIN xData.space_complexity :
            xData.space_complexity[i] \in { "O(n)", "O(1)" }


\* C21: when the Time complexity line (respectively the Space complexity
\* line) of a solution response holds no O(...) notation, the field of the
\* result starts with the synthesized prefix 'O(n) - '.
C21_PrefixSynthesized ==
  LET lacks(line)    == /\ Len(line) > 0
                        /\ \A i \in DOMAIN line[1] :
                             \/ line[1][i] \notin { "O(n)", "O(1)" }
                             \/ \E j \in 1..i : line[1][j] = Newline
      prefixed(field) == /\ Len(field) >= 4
                         /\ SubSeq(field, 1, 4) = << "O(n)", " ", "-", " " >>
  IN  xOutcome = "success"
        => /\ lacks(xSolution.time) => prefixed(xData.time_complexity)
           /\ lacks(xSolution.space) => prefixed(xData.space_complexity)


\* C22: the status of a debug response is NO_CHANGES exactly when the
\* issues section holds 'no issues', 'code looks correct' or 'not found',
\* or the code-changes section holds 'no code changes', or the issues
\* section is empty, letter case apart, and the code is then the
\* NO_CODE_CHANGES_NEEDED sentinel; with status HAS_CHANGES the code is the
\* ANALYSIS_ONLY sentinel or the non-empty code-changes text without its
\* prose lines, bullets and blank lines; the code is never empty.
C22_StatusAndSentinels ==
  LET sec    == xDebug.sections
      calm   == \/ \E w \in { "no issues", "code looks correct", "not found" } :
                     LowerIncludes(sec.issues, w)
                \/ LowerIncludes(sec.codeChanges, "no code changes")
                \/ \A i \in DOMAIN sec.issues : IsSpace(sec.issues[i])
      prose(piece) == \E w \in { "should be", "recommend", "would change",
                                 "here's" } : LowerIncludes(<< piece >>, w)
      code   == xData.code
  IN  ( xResponse.form = "debug" /\ xOutcome = "success" )
        => /\ xData.status \in { "NO_CHANGES", "HAS_CHANGES" }
           /\ xData.status = "NO_CHANGES" <=> calm
           /\ calm => code = << "__NO_CODE_CHANGES_NEEDED__" >>
           /\ xData.status = "HAS_CHANGES"
                => \/ code = << "__ANALYSIS_ONLY__" >>
                   \/ /\ \E i \in DOMAIN code : ~IsSpace(code[i])
                      /\ \A i \in DOMAIN code :
                           /\ ~prose(code[i]) /\ code[i] # "<bullet>"
                           /\ \E j \in DOMAIN sec.codeChanges :
                                sec.codeChanges[j] = code[i]
                      /\ \A j \in DOMAIN sec.codeChanges :
                           sec.codeChanges[j] \in { "i += 1", "return" }
                             => \E i \in DOMAIN code :
                                  code[i] = sec.codeChanges[j]
           /\ code # << >>

\* a debug response with issues whose code-changes section has a code
\* line, a bullet, a blank line and a second code line: the code is the
\* two code lines
C22_Witness ==
  /\ xResponse.form = "debug" /\ xOutcome = "success"
  /\ xData.status = "HAS_CHANGES"
  /\ Len(xDebug.sections.codeChanges) > 3
  /\ xData.code = << "i += 1", Newline, "return" >>


C24_TranslationPreserves ==
  LET user   == aRequest[2]
      images == SelectSeq(user.parts, LAMBDA part : part.type = "image_url")
  IN  ( /\ Len(aSent) > 0 /\ Len(aRequest) = 2
        /\ aRequest[1].role = "system" /\ user.role = "user" )
        => /\ aSent[1].roles = << "system", "user" >>
           /\ aSent[1].prompt =
                << aRequest[1].text,
                   IF user.isArray THEN user.parts[1].text ELSE user.text >>
           /\ aSent[1].payloads =
                [ i \in DOMAIN images |->
                    IF images[i].url = DataUrl THEN "iVBOR" ELSE "WIDE" ]


\* C25: an updateConfig call whose update has the opacity field only
\* starts no initializeModelProvider run and leaves the provider instances
\* and this.modelProvider as they are.
C25_OpacityStartsNoRun ==
  [][ \A u \in IpcUpdates :
        ( DOMAIN u = { "opacity" } /\ UpdateConfig(u) )
          => /\ adapters' = adapters
             /\ inits' = inits
             /\ modelProvider' = modelProvider ]_vars

\* the opacity has been updated while a provider was installed, and the
\* constructor's run is still the only one
C25_Witness ==
  /\ config.opacity = "0.5"
  /\ updates = 1
  /\ modelProvider # 0
  /\ Len(adapters) = 1


C26_QueuesUntouched ==
  [][ ( \/ ProcessScreenshots
        \/ CancelOngoingRequests
        \/ \E p \in DOMAIN pipes :
             \/ \E ok \in BOOLEAN : ReadDone(p, ok)
             \/ \E o \in BackendOutcomes, r \in ParseOutcomes :
                  ExtractSettles(p, o, r)
             \/ \E o \in BackendOutcomes :
                  SolveSettles(p, o) \/ DebugSettles(p, o) )
        => /\ screenshotQueue' = screenshotQueue
           /\ extraQueue' = extraQueue ]_vars


\* C28: a running initial pipeline has made one create call while its
\* extraction call is outstanding and two while its solution call is, a
\* running debug pipeline one while its debug call is, and none before; a
\* step in which a pipeline makes a call makes one, and takes the pipeline
\* to the stage after the one it was in, whatever the outcome of the call
\* before; pipelines are started by processScreenshots alone.
C28_NoStageRetried ==
  [][ /\ \A p \in DOMAIN pipes' :
           LET q == pipes'[p]
           IN  q.calls = ( IF q.pc \in { "extract", "debug" } THEN 1
                           ELSE IF q.pc = "solve" THEN 2 ELSE 0 )
      /\ \A p \in DOMAIN pipes :
           pipes'[p].calls > pipes[p].calls
             => /\ pipes'[p].calls = pipes[p].calls + 1
                /\ pipes'[p].pc # pipes[p].pc
                /\ pipes[p].kind = "debug" => pipes'[p].pc = "debug"
                /\ pipes[p].kind = "initial" =>
                     << pipes[p].pc, pipes'[p].pc >> \in
                       { << "read", "extract" >>, << "waitinit", "extract" >>,
                         << "extract", "solve" >> }
      /\ Len(pipes') > Len(pipes) => ProcessScreenshots ]_vars

\* a pipeline whose solution call failed has ended, a second pipeline
\* started after it is at its own solution call
C28_Witness ==
  \E p, q \in DOMAIN pipes :
    /\ p < q
    /\ pipes[p].kind = "initial" /\ pipes[p].pc = "done"
    /\ pipes[p].event = "INITIAL_SOLUTION_ERROR"
    /\ pipes[q].kind = "initial" /\ pipes[q].pc = "solve"
    /\ pipes[q].calls = 2


\* C29: when an initializeModelProvider run completes after a later run
\* has started, it leaves this.modelProvider as it is: what the later run
\* installed is neither replaced nor nulled.
C29_LaterRunWins ==
  [][ \A id \in inits \ inits' :
        id < Len(adapters) => modelProvider' = modelProvider ]_vars

\* C30: every in-flight pipeline is the owner of the abort-controller field
\* of its kind (currentProcessingAbortController for an initial pipeline,
\* currentExtraProcessingAbortController for a debug pipeline), and a
\* non-null controller field names a pipeline that is still in flight.
C30_ControllerOwnership ==
  /\ \A p \in DOMAIN pipes :
       InFlight(pipes[p])
         => IF pipes[p].kind = "initial" THEN ctlInitial = p
                                         ELSE ctlExtra = p
  /\ ctlInitial # 0
       => /\ ctlInitial \in DOMAIN pipes
          /\ pipes[ctlInitial].kind = "initial"
          /\ InFlight(pipes[ctlInitial])
  /\ ctlExtra # 0
       => /\ ctlExtra \in DOMAIN pipes
          /\ pipes[ctlExtra].kind = "debug"
          /\ InFlight(pipes[ctlExtra])

\* C31: extraction parsing takes the result of the first strategy that
\* succeeds, in the order JSON parse, per-field regular expressions, line
\* scan, and processScreenshotsHelper returns 'Failed to parse problem
\* information' only when all three strategies failed.
C31_StrategiesInOrder ==
  ( xPc # "extracted" /\ xResponse.form \notin { "none", "debug" } )
  => /\ xVia = "json" <=> JsonParses(xResponse)
     /\ xVia = "regex" <=> ~JsonParses(xResponse) /\ RegexMatches(xResponse)
     /\ xVia = "line" <=> /\ ~JsonParses(xResponse)
                          /\ ~RegexMatches(xResponse)
                          /\ LineMatches(xResponse)
     /\ xVia = "json" => xInfo = JsonStrategy(xResponse)
     /\ xVia = "regex" => xInfo = RegexStrategy(xResponse)
     /\ xVia = "line" => xInfo = LineStrategy(xResponse)
     /\ xOutcome = MsgParseFailed
          => /\ ~JsonParses(xResponse)
             /\ ~RegexMatches(xResponse)
             /\ ~LineMatches(xResponse)

\* C32: when the cleaned debug response does not hold all four section
\* markers, its sections are those of the keyword matching: a section is
\* non-empty exactly when its keyword heading stands in the text with a
\* body after it.
C32_KeywordFallback ==
  LET c == xDebug.cleanContent
      allFour == \A m \in { "----- ISSUES IDENTIFIED -----",
                            "----- CODE CHANGES -----",
                            "----- EXPLANATION -----",
                            "----- KEY POINTS -----" } :
                   \E i \in DOMAIN c : c[i] = m
      headings == { "Issues identified:", "Code changes:", "Explanation:",
                    "Key points:" }
      hasBody(head) ==
        \E i \in DOMAIN c :
          /\ c[i] = head
          /\ SkipSpace(c, i + 1) <= Len(c)
          /\ c[SkipSpace(c, i + 1)] \notin headings
  IN  ( xResponse.form = "debug" /\ ~allFour )
      => /\ xDebug.sections.issues # << >> <=> hasBody("Issues identified:")
         /\ xDebug.sections.codeChanges # << >> <=> hasBody("Code changes:")
         /\ xDebug.sections.explanation # << >> <=> hasBody("Explanation:")
         /\ xDebug.sections.keyPoints # << >> <=> hasBody("Key points:")

\* C33: the thoughts of a debug result are the first five, in text order,
\* of the bullet-marked lines of the cleaned response that have at least
\* five characters after the bullet, or the single default thought when no
\* line is such; the list is never empty and never longer than five.
C33_FirstFiveBulletLines ==
  LET c == xDebug.cleanContent
      eol(i) == CHOOSE e \in i..(Len(c) + 1) :
                  /\ e = Len(c) + 1 \/ c[e] = Newline
                  /\ \A j \in i..(e - 1) : c[j] # Newline
      mark(i) == CHOOSE k \in i..eol(i) :
                   /\ \A j \in i..(k - 1) : c[j] = " "
                   /\ k = eol(i) \/ c[k] # " "
      after(i) == Trim(SubSeq(c, mark(i) + 1, eol(i) - 1))
      long(t) == \/ Len(t) > 1
                 \/ Len(t) = 1 /\ t[1] \notin { " ", "-", "ok" }
      bulletLine(i) == /\ i = 1 \/ c[i - 1] = Newline
                       /\ mark(i) < eol(i)
                       /\ c[mark(i)] = "<bullet>"
                       /\ long(after(i))
      starts == SelectSeq([ i \in DOMAIN c |-> i ], bulletLine)
      first  == IF Len(starts) < 5 THEN Len(starts) ELSE 5
  IN  xResponse.form = "debug"
        => /\ Len(xData.thoughts) \in 1..5
           /\ xData.thoughts =
                IF starts = << >>
                THEN << << "Review the analysis to improve your solution" >> >>
                ELSE [ n \in 1..first |-> after(starts[n]) ]

\* C34: the first generate request of a create call on an OllamaProvider
\* has as its prompt the text parts, in order, of the last user message of
\* the request (or its string content), after the system text and a blank
\* line when the first message is a system message, and as its images the
\* base64 payloads, in order, of that message's image parts (as the
\* resizing leaves them).
C34_PromptFromFinalUserMessage ==
  LET users == { i \in DOMAIN aRequest : aRequest[i].role = "user" }
      final == aRequest[CHOOSE i \in users : \A j \in users : j <= i]
      RECURSIVE texts(_)
      texts(parts) ==
        IF parts = << >> THEN << >>
        ELSE ( IF Head(parts).type = "text" /\ Head(parts).text # ""
               THEN << Head(parts).text >> ELSE << >> ) \o texts(Tail(parts))
      RECURSIVE payloads(_)
      payloads(parts) ==
        IF parts = << >> THEN << >>
        ELSE ( CASE Head(parts).url = DataUrl -> << "iVBOR" >>
                 [] Head(parts).url = "data:image/png;base64,WIDE" -> << "WIDE" >>
                 [] OTHER -> << >> ) \o payloads(Tail(parts))
      text   == IF final.isArray THEN texts(final.parts) ELSE << final.text >>
      images == IF final.isArray THEN payloads(final.parts) ELSE << >>
  IN  ( aKind = "ollama" /\ Len(aSent) > 0 /\ users # { } )
        => /\ aSent[1].prompt =
                IF aRequest[1].role = "system"
                THEN << aRequest[1].text, "\n\n" >> \o text ELSE text
           /\ aSent[1].images = Len(images)
           /\ aSent[1].payloads =
                [ i \in DOMAIN images |-> ResizeBase64Image(images[i]) ]

\* C35: once initialize has returned true on an OllamaProvider, every
\* generate request of a create call, the first and the retry without
\* images, is posted to <baseUrl>/generate, baseUrl being the address
\* initialize stored and probed.
C35_GenerateUsesConfiguredUrl ==
  [][ ( /\ aKind = "ollama"
        /\ aInitResult = "true"
        /\ aCalls' # aCalls \/ Len(aSent') > Len(aSent)
        /\ Len(aSent') > 0 )
      => aSent'[Len(aSent')].url = << aBaseUrl, "/generate" >> ]_vars

\* C36: the ProblemInfo the solution stage of an initial pipeline builds
\* its prompt from is the one that pipeline's own extraction stage stored,
\* whatever cancelOngoingRequests, a reset or another pipeline did to
\* state.problemInfo since.
C36_OwnProblemInfo ==
  \A p \in DOMAIN pipes :
    ( pipes[p].kind = "initial" /\ pipes[p].pc = "solve" )
      => pipes[p].read = p

\* two initial pipelines await their solution calls, and state.problemInfo
\* holds what the later extraction stored
C36_Witness ==
  \E p, q \in DOMAIN pipes :
    /\ p # q
    /\ pipes[p].kind = "initial" /\ pipes[p].pc = "solve" /\ pipes[p].read = p
    /\ pipes[q].kind = "initial" /\ pipes[q].pc = "solve" /\ pipes[q].read = q
    /\ problemInfo = q

\* C37: an initial pipeline sends SOLUTION_SUCCESS only after its
\* INITIAL_START and then its PROBLEM_EXTRACTED, and a debug pipeline sends
\* DEBUG_SUCCESS or DEBUG_ERROR only after its DEBUG_START; the view
\* becomes 'solutions' only in a step in which SOLUTION_SUCCESS has been
\* sent, and hasDebugged becomes true only in a step that sends
\* DEBUG_SUCCESS.
C37_EventOrder ==
  [][ /\ \A p \in DOMAIN pipes :
           /\ ( pipes[p].kind = "initial" /\ pipes'[p].succ > pipes[p].succ )
                => /\ pipes[p].log = << "INITIAL_START", "PROBLEM_EXTRACTED" >>
                   /\ pipes'[p].event = "SOLUTION_SUCCESS"
           /\ ( pipes[p].kind = "initial" /\ pipes'[p].log # pipes[p].log
                  /\ pipes'[p].log # << >> )
                => /\ pipes[p].log = << "INITIAL_START" >>
                   /\ pipes'[p].log = << "INITIAL_START", "PROBLEM_EXTRACTED" >>
           /\ ( pipes[p].kind = "debug" /\ pipes'[p].term > pipes[p].term )
                => /\ pipes[p].log = << "DEBUG_START" >>
                   /\ pipes'[p].event \in { "DEBUG_SUCCESS", "DEBUG_ERROR" }
      /\ ( view' = "solutions" /\ view # "solutions" )
           => \E p \in DOMAIN pipes :
                /\ pipes[p].kind = "initial"
                /\ pipes'[p].succ > pipes[p].succ
      /\ ( hasDebugged' /\ ~hasDebugged )
           => \E p \in DOMAIN pipes :
                /\ pipes[p].kind = "debug"
                /\ pipes'[p].term > pipes[p].term
                /\ pipes'[p].event = "DEBUG_SUCCESS" ]_vars

\* an initial pipeline has sent SOLUTION_SUCCESS and a debug pipeline after
\* it DEBUG_SUCCESS: the view is 'solutions' and hasDebugged is true
C37_Witness ==
  /\ view = "solutions"
  /\ hasDebugged
  /\ \E p, q \in DOMAIN pipes :
       /\ p < q
       /\ pipes[p].kind = "initial" /\ pipes[p].event = "SOLUTION_SUCCESS"
       /\ pipes[q].kind = "debug" /\ pipes[q].event = "DEBUG_SUCCESS"

\* C38: when every awaited operation settles, every pipeline that
\* processScreenshots started ends, having sent a terminal event, and from
\* then on, whenever no pipeline of its kind is in flight, the
\* abort-controller field of its kind is null.
C38_PipelinesEnd ==
  /\ \A p \in 1..MaxPipes :
       ( p \in DOMAIN pipes )
         ~> ( /\ p \in DOMAIN pipes
              /\ pipes[p].pc = "done" /\ pipes[p].term >= 1
              /\ pipes[p].event \in TerminalEvents )
  /\ [] ( /\ ( \A p \in DOMAIN pipes :
                 pipes[p].kind = "initial" => ~InFlight(pipes[p]) )
               => ctlInitial = 0
          /\ ( \A p \in DOMAIN pipes :
                 pipes[p].kind = "debug" => ~InFlight(pipes[p]) )
               => ctlExtra = 0 )

\* both pipelines have ended, one of each kind, the initial one through the
\* catch of processScreenshots, and both controller fields are null
C38_Witness ==
  /\ Len(pipes) = 2
  /\ \A p \in DOMAIN pipes : pipes[p].pc = "done" /\ pipes[p].term >= 1
  /\ \E p, q \in DOMAIN pipes :
       /\ pipes[p].kind = "initial" /\ pipes[p].term = 2
       /\ pipes[q].kind = "debug"
  /\ ctlInitial = 0
  /\ ctlExtra = 0

====
